---- MODULE Spec2Model ----
(***************************************************************************)
(* TrackMate job-telemetry pipeline.                                       *)
(*                                                                         *)
(* Part 1: the client SDK (monitoring-v2/sdk/python/monitoring_sdk.py):    *)
(*         connection state, bounded buffer, reconnect and replay.         *)
(***************************************************************************)
EXTENDS Integers, Sequences, FiniteSets, TLC

VARIABLES
    sdk,        \* the MonitoringSDK object (fields as in __init__) plus the bytes the listener has seen
    calls,      \* number of log_* calls made so far (the id of the last emitted message)
    rejected,   \* number of log_* calls whose message failed serialization or the size check
    dropped_ids, \* the messages whose log_* call counted them in messages_dropped
    last,       \* what the last step was, with its inputs and the history of its first flush
    \* ---- BackendRouter (monitoring/sidecar/backend_router.py)
    rt_cfg,     \* the configured backends: their type and enabled flag
    breaker,    \* per backend: _status and _failure_count
    req,        \* the route_event / route_batch calls in progress
    rt_hist,    \* per backend: history of its results and of the sends issued to it
    \* ---- v2 sidecar (monitoring-v2/sidecar): correlation engine, routing engine, backends
    rules,      \* config.get_routing_rules(source): the routing rules of the source
    eng,        \* the CorrelationEngine fields for the source, and the number of messages read
    task,       \* the connection handler and the periodic flush task: where each is in on_flush
    files,      \* per filesystem backend: the lines of the source's file, in file order
    \* ---- ingest write path (apps/local_api/main.py)
    db,         \* the committed rows of the event, app, job and subjob tables
    tx,         \* the ingest requests in progress, each with its open transaction
    ing_hist,   \* history of the records submitted and of how they were answered
    \* ---- TCP listener of the v2 sidecar (monitoring-v2/sidecar/tcp_listener.py)
    lsn,        \* the TCPListener object: connections, counters
    conn,       \* per accepted socket: its ConnectionHandler and what became of its lines
    \* ---- life cycle of the v2 correlation engine (correlation_engine.py, sidecar/main.py)
    ce,         \* the CorrelationEngine object: running, per-source buffers and timestamps, counters
    ctask,      \* the connection handler, the periodic flush task and SidecarApp.stop: where each is
    chist,      \* history of the on_flush calls
    \* ---- wire protocol of the v2 sidecar (monitoring-v2/protocol/messages.py)
    codec,      \* a message, the LDJSON line it was encoded to and the message parsed from the line
    \* ---- the Monitored context manager
    mon,        \* a Monitored block: its position, the events its emitter received, the tick calls and how the block ended
    \* ---- the integration container
    ic,         \* an IntegrationContainer and one send_event call: the registered integrations, the position of the loop, the results and the calls each integration received
    \* ---- the HTTP emitter of the job SDK
    em,         \* a SidecarEmitter and one send call: its max_retries, the POST attempts made and how the call ended
    \* ---- the envelope and the spans of the v2 SDK
    tr,         \* a MonitoringSDK seen through its envelope: the current trace and span, the clock, the link, and the messages buffered and written
    \* ---- the HTTP spool sidecar
    sp          \* the sidecar agent: the Local API link, the spool directory, the events answered and forwarded, and the position of drain_spool

sdkVars == <<sdk, calls, rejected, dropped_ids, last>>
rtVars == <<rt_cfg, breaker, req, rt_hist>>
coVars == <<rules, eng, task, files>>
dbVars == <<db, tx, ing_hist>>
lsVars == <<lsn, conn>>
ceVars == <<ce, ctask, chist>>
cdVars == <<codec>>
moVars == <<mon>>
icVars == <<ic>>
emVars == <<em>>
trVars == <<tr>>
spVars == <<sp>>
vars == <<sdkVars, rtVars, coVars, dbVars, lsVars, ceVars, cdVars, moVars, icVars, emVars, trVars, spVars>>
(***************************************************************************)
(* Bounds of the model.                                                    *)
(***************************************************************************)
\* capacity of the SDK buffer (1000 in the source), scaled down
MAX_BUFFER_SIZE == 2
\* number of log_* calls in a run
MaxMsgs == 3
\* number of network operations (connect, sendall) whose outcome is chosen per call;
\* every further one in the same call fails at once
MaxNet == 3
\* number of log_* calls in a run of the reconnect schedule
MaxRetries == 6
\* number of network operations of a call whose reconnect attempts nest
MaxDeepNet == 4

(***************************************************************************)
(* Program constants.                                                      *)
(***************************************************************************)
MAX_RECONNECT_DELAY == 30
InitialReconnectDelay == 1

Min(a, b) == IF a < b THEN a ELSE b
Max(a, b) == IF a > b THEN a ELSE b

\* number of occurrences of x in the sequence q
Count(q, x) == Cardinality({i \in 1..Len(q) : q[i] = x})

\* the outcome of one blocking network operation: whether it succeeded and
\* whether it took at least a second (dt = 1) or not (dt = 0)
NetOutcome == [ok : BOOLEAN, dt : {0, 1}]

NetSeqs == UNION {[1..n -> NetOutcome] : n \in 0..MaxNet}

NoFlush == [ran |-> FALSE, pre |-> <<>>, flushed |-> 0, failed |-> FALSE]

\* MonitoringSDK.__init__ up to (not including) the initial _connect();
\* since = now - last_reconnect, saturated at MAX_RECONNECT_DELAY (last_reconnect = 0).
\* History: wire is what the listener has received, fails the number of
\* connect attempts that failed since the last one that succeeded, early
\* whether an attempt was made before reconnect_delay had passed since the
\* attempt before it, closed whether close() has been called, requeue where
\* the current call put a message whose write failed
NewSDK ==
    [state |-> "disconnected", socket |-> FALSE, buffer |-> <<>>,
     overflow_count |-> 0, reconnect_delay |-> InitialReconnectDelay,
     since |-> MAX_RECONNECT_DELAY,
     messages_sent |-> 0, messages_buffered |-> 0, messages_dropped |-> 0,
     reconnect_count |-> 0,
     wire |-> <<>>, net |-> <<>>, ret |-> FALSE, depth |-> 0, fl |-> NoFlush,
     fails |-> 0, early |-> FALSE, closed |-> FALSE, requeue |-> "none"]

NetNext(s) == IF s.net = <<>> THEN [ok |-> FALSE, dt |-> 0] ELSE Head(s.net)
NetPop(s) == [s EXCEPT !.net = IF @ = <<>> THEN <<>> ELSE Tail(@)]
Elapse(s, dt) == [s EXCEPT !.since = Min(@ + dt, MAX_RECONNECT_DELAY)]

\* deque.appendleft on a deque(maxlen=MAX_BUFFER_SIZE): a full deque discards
\* the item at the opposite (right) end
AppendLeft(buf, m) ==
    IF Len(buf) >= MAX_BUFFER_SIZE
    THEN <<m>> \o SubSeq(buf, 1, MAX_BUFFER_SIZE - 1)
    ELSE <<m>> \o buf

_buffer_message_evict(s, m) ==
    IF Len(s.buffer) < MAX_BUFFER_SIZE
    THEN [s EXCEPT !.buffer = Append(@, m), !.messages_buffered = @ + 1]
    ELSE [s EXCEPT !.buffer = Append(Tail(@), m),
                   !.state = "overflow",
                   !.overflow_count = @ + 1,
                   !.messages_dropped = @ + 1]

_buffer_message_unbounded(s, m) ==
    [s EXCEPT !.buffer = Append(@, m), !.messages_buffered = @ + 1]

_buffer_message(s, m) ==
    IF Len(s.buffer) < MAX_BUFFER_SIZE
    THEN [s EXCEPT !.buffer = Append(@, m), !.messages_buffered = @ + 1]
    ELSE [s EXCEPT !.state = "overflow",
                   !.overflow_count = @ + 1,
                   !.messages_dropped = @ + 1]

TooSoon_never(s) == FALSE

\* "if now - self.last_reconnect < self.reconnect_delay: return False"
TooSoon(s) == s.since < s.reconnect_delay

Backoff_uncapped(delay) == delay * 2

\* "min(self.reconnect_delay * 2, self.MAX_RECONNECT_DELAY)"
Backoff(delay) == Min(delay * 2, MAX_RECONNECT_DELAY)

RECURSIVE _connect(_), _flush_buffer(_), FlushLoop(_, _, _), _send_message(_, _, _)

_connect(s) ==
    IF s.state = "connected" /\ s.socket THEN s
    ELSE IF TooSoon(s) THEN s
    ELSE LET o  == NetNext(s)
             s0 == [s EXCEPT !.early = @ \/ (s.since < s.reconnect_delay)]
             s1 == Elapse([NetPop(s0) EXCEPT !.since = 0], o.dt)
         IN  IF o.ok
             THEN _flush_buffer([s1 EXCEPT !.socket = TRUE,
                                           !.state = "connected",
                                           !.reconnect_delay = InitialReconnectDelay,
                                           !.reconnect_count = @ + 1,
                                           !.fails = 0])
             ELSE [s1 EXCEPT !.state = "disconnected",
                             !.reconnect_delay = Backoff(@),
                             !.socket = FALSE,
                             !.fails = @ + 1]

\* the while loop of _flush_buffer; pre is the buffer the flush started with and
\* flushed the loop's counter. The first flush of a call records its history in fl.
FlushLoop(s, pre, flushed) ==
    IF s.buffer # <<>> /\ s.state = "connected"
    THEN LET m == Head(s.buffer)
             r == _send_message([s EXCEPT !.buffer = Tail(@)], m, TRUE)
         IN  IF r.ret
             THEN FlushLoop(r, pre, flushed + 1)
             ELSE LET t == [r EXCEPT !.buffer = AppendLeft(@, m)]
                  IN  IF t.depth = 1
                      THEN [t EXCEPT !.fl = [ran |-> TRUE, pre |-> pre,
                                             flushed |-> flushed, failed |-> TRUE]]
                      ELSE t
    ELSE IF s.depth = 1
         THEN [s EXCEPT !.fl = [ran |-> TRUE, pre |-> pre,
                                flushed |-> flushed, failed |-> FALSE]]
         ELSE s

_flush_buffer(s) ==
    IF s.state # "connected" \/ ~s.socket THEN s
    ELSE LET r == FlushLoop([s EXCEPT !.depth = @ + 1], s.buffer, 0)
             u == IF r.buffer = <<>> /\ r.state = "overflow"
                  THEN [r EXCEPT !.state = "connected", !.overflow_count = 0]
                  ELSE r
         IN  [u EXCEPT !.depth = s.depth]

\* where a message whose write failed was put, given the buffer before and
\* after: at the head, at the tail behind older messages, or nowhere; a call
\* with several failed writes keeps the first that was not at the head
Requeued(before, after, m, seen) ==
    IF seen \notin {"none", "head"} THEN seen
    ELSE IF after = <<m>> \o before THEN "head"
    ELSE IF after = Append(before, m) THEN "tail"
    ELSE "dropped"

\* valid: the message serializes and is at most MAX_MESSAGE_SIZE bytes long
_send_message(s, m, valid) ==
    IF ~valid
    THEN [s EXCEPT !.messages_dropped = @ + 1, !.ret = FALSE]
    ELSE IF s.state = "connected" /\ s.socket
    THEN LET o  == NetNext(s)
             s1 == Elapse(NetPop(s), o.dt)
         IN  IF o.ok
             THEN [s1 EXCEPT !.wire = Append(@, m),
                             !.messages_sent = @ + 1,
                             !.ret = TRUE]
             ELSE LET b == _buffer_message([s1 EXCEPT !.state = "disconnected"], m)
                  IN  [_connect([b EXCEPT !.requeue = Requeued(s1.buffer, b.buffer, m, @)])
                          EXCEPT !.ret = FALSE]
    ELSE [_connect(_buffer_message(s, m)) EXCEPT !.ret = FALSE]

\* MonitoringSDK.close: the goodbye message (id 0) goes through
\* _send_message when the SDK is connected, then the socket is closed
close(s) ==
    LET s1 == IF s.state = "connected" /\ s.socket THEN _send_message(s, 0, TRUE) ELSE s
    IN  [s1 EXCEPT !.socket = FALSE, !.state = "disconnected", !.closed = TRUE]

get_stats(s) ==
    [state |-> s.state,
     messages_sent |-> s.messages_sent,
     messages_buffered |-> s.messages_buffered,
     messages_dropped |-> s.messages_dropped,
     buffer_size |-> Len(s.buffer),
     overflow_count |-> s.overflow_count,
     reconnect_count |-> s.reconnect_count]

\* the object as it is between two calls
Rest(s) ==
    [s EXCEPT !.net = <<>>, !.ret = FALSE, !.depth = 0, !.fl = NoFlush, !.requeue = "none"]

SdkStart ==
    /\ sdk \in {Rest(_connect([NewSDK EXCEPT !.net = <<o>>])) : o \in NetOutcome}
    /\ calls = 0
    /\ rejected = 0
    /\ dropped_ids = {}
    /\ last = [op |-> "init", id |-> 0, valid |-> TRUE, ret |-> FALSE, fl |-> NoFlush, requeue |-> "none"]

\* one log_event / log_metric / log_progress / log_resource call
LogCall(valid, net) ==
    /\ LET r == _send_message([sdk EXCEPT !.net = net], calls + 1, valid)
       IN  /\ sdk' = Rest(r)
           /\ last' = [op |-> "log", id |-> calls + 1, valid |-> valid,
                       ret |-> r.ret, fl |-> r.fl, requeue |-> r.requeue]
           /\ dropped_ids' = IF r.messages_dropped > sdk.messages_dropped
                             THEN dropped_ids \cup {calls + 1}
                             ELSE dropped_ids
    /\ calls' = calls + 1
    /\ rejected' = IF valid THEN rejected ELSE rejected + 1

log_event(valid, net) ==
    /\ calls < MaxMsgs
    /\ LogCall(valid, net)

\* a second of wall-clock time passes between two calls (time that passes once
\* the reconnect throttle is already open changes nothing the SDK can observe)
Tick ==
    /\ sdk.since < sdk.reconnect_delay
    /\ sdk' = Elapse(sdk, 1)
    /\ last' = [op |-> "tick", id |-> 0, valid |-> TRUE, ret |-> FALSE, fl |-> NoFlush, requeue |-> "none"]
    /\ UNCHANGED <<calls, rejected, dropped_ids>>

\* the other components, not running
RouterOff ==
    /\ rt_cfg = [type |-> <<>>, enabled |-> <<>>]
    /\ breaker = <<>>
    /\ req = <<>>
    /\ rt_hist = <<>>

CorrelationOff ==
    /\ rules = <<>>
    /\ eng = <<>>
    /\ task = <<>>
    /\ files = <<>>

IngestOff ==
    /\ db = <<>>
    /\ tx = <<>>
    /\ ing_hist = <<>>

ListenerOff ==
    /\ lsn = <<>>
    /\ conn = <<>>

EngineOff ==
    /\ ce = <<>>
    /\ ctask = <<>>
    /\ chist = <<>>

CodecOff ==
    /\ codec = <<>>

MonitoredOff ==
    /\ mon = <<>>

IntegrationOff ==
    /\ ic = <<>>

EmitterOff ==
    /\ em = <<>>

TracingOff ==
    /\ tr = <<>>

SpoolOff ==
    /\ sp = <<>>

SdkInit == SdkStart /\ RouterOff /\ CorrelationOff /\ IngestOff /\ ListenerOff /\ EngineOff /\ CodecOff /\ MonitoredOff /\ IntegrationOff /\ EmitterOff /\ TracingOff /\ SpoolOff

SdkNext ==
    \/ \E valid \in BOOLEAN, net \in NetSeqs :
          log_event(valid, net) /\ UNCHANGED <<rtVars, coVars, dbVars, lsVars, ceVars, cdVars, moVars, icVars, emVars, trVars, spVars>>
    \/ Tick /\ UNCHANGED <<rtVars, coVars, dbVars, lsVars, ceVars, cdVars, moVars, icVars, emVars, trVars, spVars>>

SpecSDK == SdkInit /\ [][SdkNext]_vars

\* the network of a call that makes at most one network operation (the
\* write, or the connect attempt of a call made offline)
RetryNets == {<<>>} \cup {<<o>> : o \in NetOutcome}

\* one close() call
sdk_close(net) ==
    /\ sdk' = Rest(close([sdk EXCEPT !.net = net]))
    /\ last' = [op |-> "close", id |-> 0, valid |-> TRUE, ret |-> FALSE, fl |-> NoFlush, requeue |-> "none"]
    /\ UNCHANGED <<calls, rejected, dropped_ids>>

CloseNext ==
    \/ SdkNext
    \/ \E net \in RetryNets : sdk_close(net) /\ UNCHANGED <<rtVars, coVars, dbVars, lsVars, ceVars, cdVars, moVars, icVars, emVars, trVars, spVars>>

SpecClose == SdkInit /\ [][CloseNext]_vars


log_retry(net) ==
    /\ calls < MaxRetries
    /\ LogCall(TRUE, net)

BackoffNext ==
    \/ \E net \in RetryNets : log_retry(net) /\ UNCHANGED <<rtVars, coVars, dbVars, lsVars, ceVars, cdVars, moVars, icVars, emVars, trVars, spVars>>
    \/ Tick /\ UNCHANGED <<rtVars, coVars, dbVars, lsVars, ceVars, cdVars, moVars, icVars, emVars, trVars, spVars>>

SpecBackoff == SdkInit /\ [][BackoffNext]_vars

\* the network of a call in which a write of the flush fails and the
\* reconnect attempt that follows succeeds and flushes again
DeepNets == UNION {[1..n -> NetOutcome] : n \in 0..MaxDeepNet}

log_deep(net) ==
    /\ calls < MaxMsgs
    /\ LogCall(TRUE, net)

ReconnectNext ==
    \/ \E net \in DeepNets : log_deep(net) /\ UNCHANGED <<rtVars, coVars, dbVars, lsVars, ceVars, cdVars, moVars, icVars, emVars, trVars, spVars>>
    \/ Tick /\ UNCHANGED <<rtVars, coVars, dbVars, lsVars, ceVars, cdVars, moVars, icVars, emVars, trVars, spVars>>

SpecReconnect == SdkInit /\ [][ReconnectNext]_vars

(***************************************************************************)
(* Properties of the SDK.                                                  *)
(***************************************************************************)

\* the messages some log_* call has emitted
Emitted == 1..calls

\* C1: every message a log_* call accepted and that was not counted as dropped
\* is written to the listener exactly once: never twice, and not zero times
\* once the SDK is connected again with its buffer drained.
C1_ExactlyOnce ==
    /\ \A m \in Emitted : Count(sdk.wire, m) <= 1
    /\ (sdk.state = "connected" /\ sdk.buffer = <<>>)
          => \A m \in Emitted \ dropped_ids : Count(sdk.wire, m) = 1

\* a log_* call that found the buffer full and had to buffer its message
\* (the message was valid and was not written)
BufferedOnFull ==
    /\ last'.op = "log" /\ last'.valid /\ ~last'.ret
    /\ Len(sdk.buffer) = MAX_BUFFER_SIZE

\* the reconnect attempt that follows the buffering is throttled, so that the
\* call ends in the state _buffer_message left
Throttled == sdk.state # "connected" /\ sdk.since < sdk.reconnect_delay

C4_FlushRevert ==
    (last.op = "log" /\ last.fl.ran) =>
        LET pre == last.fl.pre
            k   == last.fl.flushed
        IN  /\ last.fl.failed =>
                  /\ sdk.buffer = SubSeq(pre, k + 1, Len(pre))
                  /\ \A m \in Emitted : Count(sdk.buffer, m) <= 1
            /\ ~last.fl.failed =>
                  /\ sdk.buffer = <<>>
                  /\ Len(sdk.wire) >= Len(pre)
                  /\ SubSeq(sdk.wire, Len(sdk.wire) - Len(pre) + 1, Len(sdk.wire)) = pre

RECURSIVE Pow2(_)
Pow2(n) == IF n = 0 THEN 1 ELSE 2 * Pow2(n - 1)

\* C16 as claimed: the wait required after the first failed attempt is 1 s
\* and every further consecutive failure doubles it up to 30 s; a success
\* resets it to 1 s; no attempt is made before the required wait has passed.
C16_BackoffFromOne ==
    /\ sdk.fails = 0 => sdk.reconnect_delay = InitialReconnectDelay
    /\ sdk.fails >= 1 =>
          sdk.reconnect_delay = Min(Pow2(sdk.fails - 1), MAX_RECONNECT_DELAY)
    /\ ~sdk.early

\* C16 amended: the required wait is 1 s after construction and after a
\* successful connect, and min(2^k, 30) s after k consecutive failed
\* attempts (2 s after the first); no attempt is made before the required
\* wait since the previous attempt has passed.
C16_Backoff ==
    /\ sdk.reconnect_delay = Min(Pow2(sdk.fails), MAX_RECONNECT_DELAY)
    /\ ~sdk.early

\* the wait has reached its ceiling after five failures in a row that
\* followed a successful connect
C16_Witness ==
    /\ sdk.reconnect_count >= 1
    /\ sdk.fails >= 5
    /\ sdk.reconnect_delay = MAX_RECONNECT_DELAY

\* C27: close() shuts the emitter down: once close() has been called the
\* state is DISCONNECTED with no socket after every later call (a second
\* close() included), no later call opens a connection and nothing more
\* reaches the listener.
C27_CloseFinal ==
    [][ sdk.closed =>
           /\ sdk'.state = "disconnected"
           /\ ~sdk'.socket
           /\ sdk'.reconnect_count = sdk.reconnect_count
           /\ sdk'.wire = sdk.wire ]_vars

\* C32: when a write fails while the SDK is CONNECTED, the failed message is
\* re-enqueued at the head of the buffer, before every message already
\* buffered.
C32_RequeueAtHead == last.requeue \in {"none", "head"}

\* C36: whenever no SDK call is in progress and the state is CONNECTED, the
\* buffer is empty: buffered messages exist only while the state is
\* DISCONNECTED or OVERFLOW.
C36_ConnectedEmpty == sdk.state = "connected" => sdk.buffer = <<>>

\* the transitions of the state machine, as (from, to) pairs
AllowedTransitions ==
    { <<"disconnected", "connected">>, <<"connected", "disconnected">>,
      <<"connected", "overflow">>, <<"overflow", "connected">> }

\* C15: between two calls the state changes only along DISCONNECTED ->
\* CONNECTED, CONNECTED -> DISCONNECTED, CONNECTED -> OVERFLOW and OVERFLOW ->
\* CONNECTED; and a call made in state OVERFLOW leaves the state OVERFLOW,
\* or CONNECTED with the buffer drained to empty.
C15_StateMachine ==
    [][ /\ sdk'.state # sdk.state => <<sdk.state, sdk'.state>> \in AllowedTransitions
        /\ sdk.state = "overflow" =>
              \/ sdk'.state = "overflow"
              \/ sdk'.state = "connected" /\ sdk'.buffer = <<>> ]_vars

(***************************************************************************)
(* Part 2: the v1 sidecar router (monitoring/sidecar/backend_router.py):   *)
(*         concurrent fan-out with a per-backend failure counter.          *)
(***************************************************************************)

\* concurrent route_event / route_batch calls (one per HTTP request in progress)
MaxReq == 1
\* outcomes "fail" are chosen only while every _failure_count is below this
MaxCount == 7

\* SidecarBackend._max_failures
MaxFailures == 5
\* record_failure: "elif self._failure_count > 2"
DegradedAbove == 2

\* BackendRouter.backends, sorted by priority
Backends == <<"A", "B">>
BackendIds == {Backends[i] : i \in 1..Len(Backends)}
BackendTypes == {"managed_api", "filesystem"}

SdkOff ==
    /\ sdk = Rest(NewSDK)
    /\ calls = 0
    /\ rejected = 0
    /\ dropped_ids = {}
    /\ last = [op |-> "init", id |-> 0, valid |-> TRUE, ret |-> FALSE, fl |-> NoFlush, requeue |-> "none"]

\* SidecarBackend.__init__
NewBreaker == [_status |-> "healthy", _failure_count |-> 0]

record_success(bk) ==
    LET c == IF bk._failure_count > 0 THEN bk._failure_count - 1 ELSE bk._failure_count
    IN  [_status |-> IF c = 0 THEN "healthy" ELSE bk._status, _failure_count |-> c]

record_failure(bk) ==
    LET c == bk._failure_count + 1
    IN  [_status |-> IF c >= MaxFailures THEN "failed"
                     ELSE IF c > DegradedAbove THEN "degraded"
                     ELSE bk._status,
         _failure_count |-> c]

is_available_all(br, b) == \A x \in BackendIds : br[x]._status = "healthy"

is_available(br, b) == br[b]._status # "failed"

\* next(b for b in self.backends if b.type.value == backend_name)
FirstOfType(name) ==
    Backends[CHOOSE i \in 1..Len(Backends) :
                 /\ rt_cfg.type[Backends[i]] = name
                 /\ \A j \in 1..(i - 1) : rt_cfg.type[Backends[j]] # name]

\* the backends a call creates a send task for, in the order of self.backends
RECURSIVE SelectTargets(_, _)
SelectTargets(i, br) ==
    IF i > Len(Backends) THEN <<>>
    ELSE LET b == Backends[i]
         IN  (IF rt_cfg.enabled[b] /\ is_available(br, b) THEN <<b>> ELSE <<>>)
                 \o SelectTargets(i + 1, br)

IdleReq == [pc |-> "idle", kind |-> "none", targets |-> <<>>, results |-> <<>>]

NewHist == [streak |-> 0, sent_open |-> FALSE, bad |-> FALSE, skipped |-> FALSE,
            run |-> 0]

RouterStart ==
    /\ rt_cfg \in [type : [BackendIds -> BackendTypes], enabled : [BackendIds -> BOOLEAN]]
    /\ breaker = [b \in BackendIds |-> NewBreaker]
    /\ req = [r \in 1..MaxReq |-> IdleReq]
    /\ rt_hist = [b \in BackendIds |-> NewHist]

\* route_event / route_batch up to "await asyncio.gather(...)": the send tasks
\* are created for the enabled backends that are available now
route_start(r, kind) ==
    /\ req[r].pc = "idle"
    /\ LET tg == SelectTargets(1, breaker)
       IN  /\ req' = [req EXCEPT ![r] =
                  IF tg = <<>> THEN IdleReq
                  ELSE [pc |-> "gather", kind |-> kind, targets |-> tg,
                        results |-> [i \in 1..Len(tg) |-> "pending"]]]
           /\ rt_hist' = [b \in BackendIds |->
                  [rt_hist[b] EXCEPT
                      !.sent_open = @ \/ (breaker[b]._status = "failed"
                                          /\ Count(tg, b) > 0),
                      !.skipped = @ \/ (rt_cfg.enabled[b] /\ Count(tg, b) = 0)]]
    /\ UNCHANGED <<rt_cfg, breaker>>

route_event(r) == route_start(r, "event")
route_batch(r) == route_start(r, "batch")

\* one send_event / send_batch task finishes: a result with success (ok), a
\* result without (fail), or an exception (raise)
send_done(r, i, out) ==
    /\ req[r].pc = "gather"
    /\ i \in 1..Len(req[r].targets)
    /\ req[r].results[i] = "pending"
    /\ out = "fail" => \A b \in BackendIds : breaker[b]._failure_count < MaxCount
    /\ req' = [req EXCEPT ![r].results[i] = out]
    /\ rt_hist' = [rt_hist EXCEPT ![req[r].targets[i]].bad = @ \/ out # "ok"]
    /\ UNCHANGED <<rt_cfg, breaker>>

\* the "Process results" loop over zip(backend_names, results), from index i
RECURSIVE ProcessResults(_, _, _, _)
ProcessResults(i, targets, results, st) ==
    IF i > Len(targets) THEN st
    ELSE LET b    == targets[i]
             name == rt_cfg.type[b]
             out  == results[i]
             upd  == FirstOfType(name)
             clean == st.br[b]._failure_count = 0 /\ st.br[b]._status = "healthy"
             k    == IF out # "fail" THEN 0
                     ELSE IF st.streak[b] > 0 THEN Min(st.streak[b] + 1, MaxFailures)
                     ELSE IF clean THEN 1 ELSE 0
             br2  == IF out = "raise" THEN st.br
                     ELSE IF out = "ok"
                     THEN [st.br EXCEPT ![upd] = record_success(@)]
                     ELSE [st.br EXCEPT ![upd] = record_failure(@)]
         IN  ProcessResults(i + 1, targets, results,
                            [br |-> br2, streak |-> [st.streak EXCEPT ![b] = k]])

\* route_event / route_batch after gather has returned
route_collect(r) ==
    /\ req[r].pc = "gather"
    /\ \A i \in 1..Len(req[r].targets) : req[r].results[i] \notin {"pending", "hung"}
    /\ LET st == ProcessResults(1, req[r].targets, req[r].results,
                     [br |-> breaker,
                      streak |-> [b \in BackendIds |-> rt_hist[b].streak]])
       IN  /\ breaker' = st.br
           /\ rt_hist' = [b \in BackendIds |->
                             [rt_hist[b] EXCEPT !.streak = st.streak[b]]]
    /\ req' = [req EXCEPT ![r] = IdleReq]
    /\ UNCHANGED rt_cfg

RouterInit == RouterStart /\ SdkOff /\ CorrelationOff /\ IngestOff /\ ListenerOff /\ EngineOff /\ CodecOff /\ MonitoredOff /\ IntegrationOff /\ EmitterOff /\ TracingOff /\ SpoolOff

RouterNext ==
    \/ \E r \in 1..MaxReq : route_event(r) /\ UNCHANGED <<sdkVars, coVars, dbVars, lsVars, ceVars, cdVars, moVars, icVars, emVars, trVars, spVars>>
    \/ \E r \in 1..MaxReq : route_batch(r) /\ UNCHANGED <<sdkVars, coVars, dbVars, lsVars, ceVars, cdVars, moVars, icVars, emVars, trVars, spVars>>
    \/ \E r \in 1..MaxReq, i \in 1..Len(Backends), out \in {"ok", "fail", "raise"} :
          send_done(r, i, out) /\ UNCHANGED <<sdkVars, coVars, dbVars, lsVars, ceVars, cdVars, moVars, icVars, emVars, trVars, spVars>>
    \/ \E r \in 1..MaxReq : route_collect(r) /\ UNCHANGED <<sdkVars, coVars, dbVars, lsVars, ceVars, cdVars, moVars, icVars, emVars, trVars, spVars>>

SpecRouter == RouterInit /\ [][RouterNext]_vars

\* requests keep arriving and every task and every call eventually finishes
RouterFairness ==
    /\ \A r \in 1..MaxReq : WF_vars(route_batch(r) /\ UNCHANGED <<sdkVars, coVars, dbVars, lsVars, ceVars, cdVars, moVars, icVars, emVars, trVars, spVars>>)
    /\ \A r \in 1..MaxReq : WF_vars(route_collect(r) /\ UNCHANGED <<sdkVars, coVars, dbVars, lsVars, ceVars, cdVars, moVars, icVars, emVars, trVars, spVars>>)
    /\ \A r \in 1..MaxReq, i \in 1..Len(Backends) :
          WF_vars((\E out \in {"ok", "fail", "raise"} : send_done(r, i, out))
                  /\ UNCHANGED <<sdkVars, coVars, dbVars, lsVars, ceVars, cdVars, moVars, icVars, emVars, trVars, spVars>>)

SpecRouterFair == SpecRouter /\ RouterFairness

\* a send_event / send_batch task will never return (its backend hangs): the
\* gather of its route call has no deadline and goes on waiting for it
send_hangs(r, i) ==
    /\ req[r].pc = "gather"
    /\ i \in 1..Len(req[r].targets)
    /\ req[r].results[i] = "pending"
    /\ req' = [req EXCEPT ![r].results[i] = "hung"]
    /\ rt_hist' = [rt_hist EXCEPT ![req[r].targets[i]].bad = TRUE]
    /\ UNCHANGED <<rt_cfg, breaker>>

HangNext ==
    \/ RouterNext
    \/ \E r \in 1..MaxReq, i \in 1..Len(Backends) :
          send_hangs(r, i) /\ UNCHANGED <<sdkVars, coVars, dbVars, lsVars, ceVars, cdVars, moVars, icVars, emVars, trVars, spVars>>

\* every send that can return does, and every route call whose sends have
\* all returned goes on
SpecRouterHang == RouterInit /\ [][HangNext]_vars /\ RouterFairness

\* one result is recorded on the breaker of backend b: record_success() or
\* record_failure(); run counts the failures recorded since the last success
record_result(b, ok) ==
    /\ ~ok => breaker[b]._failure_count < MaxCount
    /\ breaker' = [breaker EXCEPT ![b] = IF ok THEN record_success(@) ELSE record_failure(@)]
    /\ rt_hist' = [rt_hist EXCEPT ![b].run = IF ok THEN 0 ELSE @ + 1]
    /\ UNCHANGED <<rt_cfg, req>>

BreakerNext ==
    \E b \in BackendIds, ok \in BOOLEAN :
        record_result(b, ok) /\ UNCHANGED <<sdkVars, coVars, dbVars, lsVars, ceVars, cdVars, moVars, icVars, emVars, trVars, spVars>>

SpecBreaker == RouterInit /\ [][BreakerNext]_vars

(***************************************************************************)
(* Properties of the v1 router.                                            *)
(***************************************************************************)

\* C5: after 5 consecutive failed results from a backend, counted from a
\* healthy breaker with zero failures, that backend's breaker is open (status
\* FAILED); and no send is issued to a backend whose breaker is open.
C5_OpenAfterFive ==
    \A b \in BackendIds :
        /\ rt_hist[b].streak >= MaxFailures => breaker[b]._status = "failed"
        /\ ~rt_hist[b].sent_open

\* a route call processes the results of its sends and returns
Collects(r) == req[r].pc = "gather" /\ req'[r].pc = "idle"

\* C34: every failed send updates the backend's breaker: a send that raised
\* an exception increments the failure count of its backend, as a result
\* with success = false does.
C34_ExceptionCounts ==
    [][ \A r \in 1..MaxReq : Collects(r) =>
           \A i \in 1..Len(req[r].targets) :
               req[r].results[i] = "raise" =>
                   breaker'[req[r].targets[i]]._failure_count >
                       breaker[req[r].targets[i]]._failure_count ]_vars

\* C40: each result updates the breaker of the backend that produced it,
\* also when two backends have the same type: a route call leaves the
\* breaker of every backend it has sent nothing to as it was.
C40_OwnBreaker ==
    [][ \A r \in 1..MaxReq : Collects(r) =>
           \A b \in BackendIds :
               Count(req[r].targets, b) = 0 => breaker'[b] = breaker[b] ]_vars

\* C17: the breaker counts consecutive failures: a breaker is DEGRADED only
\* when the last 3 results recorded on it were all failures and open only when
\* the last 5 were, so that it is HEALTHY whenever the last result recorded on
\* it was a success (run = number of failures recorded on the breaker since
\* the last success).
C17_ConsecutiveFailures ==
    \A b \in BackendIds :
        /\ breaker[b]._status = "degraded" => rt_hist[b].run > DegradedAbove
        /\ breaker[b]._status = "failed" => rt_hist[b].run >= MaxFailures

\* C26: a route call completes even if the send of one of its backends never
\* returns: every route call that is waiting for its sends eventually
\* returns.
C26_RouteCompletes ==
    \A r \in 1..MaxReq : (req[r].pc = "gather") ~> (req[r].pc = "idle")

\* a route call has sends in flight
Routing == \E r \in 1..MaxReq : req[r].pc = "gather"

\* C6: an open breaker does not stay open unattended while batches keep
\* arriving (and being sent to some backend): the backend is eventually
\* offered a (probe) send or has left the open state.
C6_ProbeAfterOpen ==
    \A b \in BackendIds :
        ([]<>Routing) =>
            ((breaker[b]._status = "failed")
                ~> (breaker[b]._status # "failed" \/ rt_hist[b].sent_open))

\* C7: a backend B that is enabled and whose own sends all succeed is sent
\* the batch exactly once by every route call (never skipped), whatever the other backend
\* does (failed results or exceptions, breaker closed or open): B's breaker
\* never opens and B's pending send can always complete.
C7_Isolation ==
    \A b \in BackendIds :
        (rt_cfg.enabled[b] /\ ~rt_hist[b].bad) =>
            /\ breaker[b]._status # "failed"
            /\ ~rt_hist[b].skipped
            /\ \A r \in 1..MaxReq :
                  req[r].pc = "gather" =>
                      /\ Count(req[r].targets, b) = 1
                      /\ \A i \in 1..Len(req[r].targets) :
                            (req[r].targets[i] = b /\ req[r].results[i] = "pending")
                                => ENABLED send_done(r, i, "ok")

C7_Witness ==
    /\ rt_cfg.enabled["B"] /\ ~rt_hist["B"].bad
    /\ breaker["A"]._status = "failed"
    /\ req[1].pc = "gather"
    /\ req[1].targets = <<"B">>
    /\ req[1].results = <<"ok">>

(***************************************************************************)
(* Part 3: the v2 sidecar (monitoring-v2/sidecar): one connection of one   *)
(*         source feeding the correlation engine, whose flushes go through *)
(*         the routing engine to the filesystem backends.                  *)
(***************************************************************************)

\* BufferConfig.flush_batch_size (100 in the source), scaled down
flush_batch_size == 2
\* messages read from the connection in a run
MaxRecv == 3

MessageTypes == {"event", "metric"}
FsBackends == {"fs", "fs2"}

\* a rule's filter: unset (None or {}), or {'types': [...]}
NoFilter == [set |-> FALSE, types |-> {}]
TypesFilter(ts) == [set |-> TRUE, types |-> ts]
Rule(b, en, f) == [backend |-> b, enabled |-> en, filter |-> f]

\* the routing configurations of the source the model starts from
RuleSets ==
    { <<Rule("fs", TRUE, NoFilter)>>,
      <<Rule("fs", TRUE, TypesFilter({"event"}))>>,
      <<Rule("fs", TRUE, NoFilter), Rule("fs2", TRUE, TypesFilter({"metric"}))>>,
      <<Rule("fs", FALSE, NoFilter), Rule("s3", TRUE, NoFilter),
        Rule("fs2", TRUE, NoFilter)>>,
      <<Rule("fs", TRUE, NoFilter), Rule("fs", TRUE, TypesFilter({"event"}))>> }

TaskIds == {"conn", "timer"}
\* counted: the (backend, message) pairs _update_stats has added to a
\* backend's messages_sent for the batch the task is flushing
IdleTask == [pc |-> "idle", batch |-> <<>>, sends |-> <<>>, counted |-> <<>>]

\* CorrelationEngine.__init__
NewEngine ==
    [buffer |-> <<>>, has_ts |-> FALSE, aged |-> FALSE,
     messages_received |-> 0, messages_flushed |-> 0, flush_count |-> 0]

\* _flush_source up to "await self.on_flush(messages)", on a non-empty buffer
_flush_source(e) ==
    [e EXCEPT !.buffer = <<>>, !.has_ts = FALSE, !.aged = FALSE,
              !.messages_flushed = @ + Len(e.buffer),
              !.flush_count = @ + 1]

\* on_flush(messages) = RoutingEngine.route, up to its gather
route(messages) == [pc |-> "route", batch |-> messages, sends |-> <<>>, counted |-> <<>>]

_apply_filter(messages, filter_spec) ==
    IF ~filter_spec.set THEN messages
    ELSE SelectSeq(messages, LAMBDA m : m.type \in filter_spec.types)

\* FileSystemBackend.send called on a batch, before the file is open
NewSend(b, messages) ==
    [backend |-> b, msgs |-> messages, stage |-> "open", idx |-> 0, pend |-> 0,
     success |-> FALSE]

\* the _send_to_backend tasks _route_source creates, from rule i on
RECURSIVE RuleSends(_, _)
RuleSends(i, messages) ==
    IF i > Len(rules) THEN <<>>
    ELSE LET filtered == _apply_filter(messages, rules[i].filter)
         IN  (IF rules[i].enabled /\ rules[i].backend \in FsBackends /\ filtered # <<>>
              THEN <<NewSend(rules[i].backend, filtered)>>
              ELSE <<>>) \o RuleSends(i + 1, messages)

CorrelationStart ==
    /\ rules \in RuleSets
    /\ eng = NewEngine
    /\ task = [t \in TaskIds |-> IdleTask]
    /\ files = [b \in FsBackends |-> <<>>]

\* the connection handler reads one message and awaits process_message; it
\* reads the next one only once process_message (and its flush) has returned
process_message(ty) ==
    /\ task["conn"].pc = "idle"
    /\ eng.messages_received < MaxRecv
    /\ LET m  == [id |-> eng.messages_received + 1, type |-> ty]
           e1 == [eng EXCEPT !.messages_received = @ + 1,
                             !.buffer = Append(@, m),
                             !.has_ts = TRUE]
       IN  IF Len(e1.buffer) >= flush_batch_size
           THEN /\ eng' = _flush_source(e1)
                /\ task' = [task EXCEPT !["conn"] = route(e1.buffer)]
           ELSE /\ eng' = e1
                /\ UNCHANGED task
    /\ UNCHANGED <<rules, files>>

\* flush_interval seconds have passed since buffer_timestamps[source]
IntervalPasses ==
    /\ eng.has_ts
    /\ ~eng.aged
    /\ eng' = [eng EXCEPT !.aged = TRUE]
    /\ UNCHANGED <<rules, task, files>>

\* the periodic task wakes from its sleep and runs _flush_by_time (a wake-up
\* that finds nothing to flush changes nothing)
_periodic_flush ==
    /\ task["timer"].pc = "idle"
    /\ eng.has_ts /\ eng.aged /\ eng.buffer # <<>>
    /\ eng' = _flush_source(eng)
    /\ task' = [task EXCEPT !["timer"] = route(eng.buffer)]
    /\ UNCHANGED <<rules, files>>

\* the _route_source task of a flush runs: it creates the sends and gathers
\* them, or returns at once when no rule yields one
_route_source(t) ==
    /\ task[t].pc = "route"
    /\ LET s == RuleSends(1, task[t].batch)
       IN  task' = [task EXCEPT ![t] =
               IF s = <<>> THEN IdleTask ELSE [@ EXCEPT !.pc = "send", !.sends = s]]
    /\ UNCHANGED <<rules, eng, files>>

\* the lines a send has written to its file object and not yet flushed to the file
Pending(s) == SubSeq(s.msgs, s.idx - s.pend + 1, s.idx)

\* FileSystemBackend.send: "async with aiofiles.open(file_path, 'a')" returns
fs_open(t, i) ==
    /\ task[t].pc = "send"
    /\ i \in 1..Len(task[t].sends)
    /\ task[t].sends[i].stage = "open"
    /\ task' = [task EXCEPT ![t].sends[i].stage = "write"]
    /\ UNCHANGED <<rules, eng, files>>

\* one "await f.write(line)" returns; the file object passes its buffered
\* lines on to the file when its buffer is full (flush)
fs_write(t, i, flush) ==
    /\ task[t].pc = "send"
    /\ i \in 1..Len(task[t].sends)
    /\ LET s  == task[t].sends[i]
           s1 == [s EXCEPT !.idx = @ + 1, !.pend = @ + 1]
       IN  /\ s.stage = "write"
           /\ s.idx < Len(s.msgs)
           /\ IF flush
              THEN /\ files' = [files EXCEPT ![s.backend] = @ \o Pending(s1)]
                   /\ task' = [task EXCEPT ![t].sends[i] = [s1 EXCEPT !.pend = 0]]
              ELSE /\ task' = [task EXCEPT ![t].sends[i] = s1]
                   /\ UNCHANGED files
    /\ UNCHANGED <<rules, eng>>

\* the "async with" block is left after the last write: the file is closed,
\* which flushes what is buffered, and send returns success
fs_close(t, i) ==
    /\ task[t].pc = "send"
    /\ i \in 1..Len(task[t].sends)
    /\ LET s == task[t].sends[i]
       IN  /\ s.stage = "write"
           /\ s.idx = Len(s.msgs)
           /\ files' = [files EXCEPT ![s.backend] = @ \o Pending(s)]
           /\ task' = [task EXCEPT ![t].sends[i] =
                          [s EXCEPT !.stage = "done", !.pend = 0, !.success = TRUE],
                                   ![t].counted =
                          @ \o [k \in 1..Len(s.msgs) |-> <<s.backend, s.msgs[k].id>>]]
    /\ UNCHANGED <<rules, eng>>

\* open or write raises: send returns a result without success; what the file
\* object had buffered reaches the file (kept) or not
fs_error(t, i, kept) ==
    /\ task[t].pc = "send"
    /\ i \in 1..Len(task[t].sends)
    /\ LET s == task[t].sends[i]
       IN  /\ s.stage \in {"open", "write"}
           /\ s.stage = "write" => s.idx < Len(s.msgs)
           /\ files' = [files EXCEPT ![s.backend] =
                           IF kept THEN @ \o Pending(s) ELSE @]
           /\ task' = [task EXCEPT ![t].sends[i] =
                          [s EXCEPT !.stage = "done", !.pend = 0]]
    /\ UNCHANGED <<rules, eng>>

\* every send of the flush is done: gather, route and on_flush return, and so
\* does _flush_source; the task is back in its loop
on_flush_return(t) ==
    /\ task[t].pc = "send"
    /\ \A i \in 1..Len(task[t].sends) : task[t].sends[i].stage = "done"
    /\ task' = [task EXCEPT ![t] = IdleTask]
    /\ UNCHANGED <<rules, eng, files>>

CorrelationInit == CorrelationStart /\ SdkOff /\ RouterOff /\ IngestOff /\ ListenerOff /\ EngineOff /\ CodecOff /\ MonitoredOff /\ IntegrationOff /\ EmitterOff /\ TracingOff /\ SpoolOff

CorrelationNext ==
    \/ \E ty \in MessageTypes :
          process_message(ty) /\ UNCHANGED <<sdkVars, rtVars, dbVars, lsVars, ceVars, cdVars, moVars, icVars, emVars, trVars, spVars>>
    \/ IntervalPasses /\ UNCHANGED <<sdkVars, rtVars, dbVars, lsVars, ceVars, cdVars, moVars, icVars, emVars, trVars, spVars>>
    \/ _periodic_flush /\ UNCHANGED <<sdkVars, rtVars, dbVars, lsVars, ceVars, cdVars, moVars, icVars, emVars, trVars, spVars>>
    \/ \E t \in TaskIds : _route_source(t) /\ UNCHANGED <<sdkVars, rtVars, dbVars, lsVars, ceVars, cdVars, moVars, icVars, emVars, trVars, spVars>>
    \/ \E t \in TaskIds, i \in 1..Len(rules) : fs_open(t, i) /\ UNCHANGED <<sdkVars, rtVars, dbVars, lsVars, ceVars, cdVars, moVars, icVars, emVars, trVars, spVars>>
    \/ \E t \in TaskIds, i \in 1..Len(rules), flush \in BOOLEAN :
          fs_write(t, i, flush) /\ UNCHANGED <<sdkVars, rtVars, dbVars, lsVars, ceVars, cdVars, moVars, icVars, emVars, trVars, spVars>>
    \/ \E t \in TaskIds, i \in 1..Len(rules) : fs_close(t, i) /\ UNCHANGED <<sdkVars, rtVars, dbVars, lsVars, ceVars, cdVars, moVars, icVars, emVars, trVars, spVars>>
    \/ \E t \in TaskIds, i \in 1..Len(rules), kept \in BOOLEAN :
          fs_error(t, i, kept) /\ UNCHANGED <<sdkVars, rtVars, dbVars, lsVars, ceVars, cdVars, moVars, icVars, emVars, trVars, spVars>>
    \/ \E t \in TaskIds : on_flush_return(t) /\ UNCHANGED <<sdkVars, rtVars, dbVars, lsVars, ceVars, cdVars, moVars, icVars, emVars, trVars, spVars>>

SpecCorrelation == CorrelationInit /\ [][CorrelationNext]_vars

(***************************************************************************)
(* Properties of the v2 sidecar.                                           *)
(***************************************************************************)

\* C8: the messages of the connection are written to every backend file in
\* receive order (message ids are assigned in the order the connection
\* handler reads them): no line of a file follows a line of a later message.
C8_ReceiveOrder ==
    \A b \in FsBackends :
        \A i, j \in 1..Len(files[b]) :
            i < j => files[b][i].id < files[b][j].id

\* C9: the flushes of the source are serialized: no on_flush invocation is in
\* progress in the connection handler (size-triggered) while one is in
\* progress in the periodic task (time-triggered).
C9_FlushSerialized ==
    ~(task["conn"].pc # "idle" /\ task["timer"].pc # "idle")

\* C22: for one flushed batch each backend's send is invoked at most once and
\* each message of the batch is counted in that backend's messages_sent at
\* most once.
C22_OncePerBackend ==
    \A t \in TaskIds :
        /\ \A i, j \in 1..Len(task[t].sends) :
               i # j => task[t].sends[i].backend # task[t].sends[j].backend
        /\ \A i, j \in 1..Len(task[t].counted) :
               i # j => task[t].counted[i] # task[t].counted[j]

\* a send of a flushed batch has not completed
SendInProgress ==
    \E t \in TaskIds :
        /\ task[t].pc = "send"
        /\ \E i \in 1..Len(task[t].sends) : task[t].sends[i].stage # "done"

\* C21: the connection handler never waits on a backend: while a backend send
\* of a flushed batch has not completed and the connection has a further
\* line, the handler can read it and hand it to the correlation engine.
C21_HandlerNeverWaits ==
    (SendInProgress /\ eng.messages_received < MaxRecv)
        => ENABLED process_message("event")

(***************************************************************************)
(* Part 4: the ingest write path (apps/local_api/main.py): POST            *)
(*         /v1/ingest/events, one database transaction per request.        *)
(***************************************************************************)

\* records submitted in a run, by /v1/ingest/events and /v1/ingest/events:batch
MaxIngests == 3
\* ingest requests in progress at the same time (connections of the pool)
MaxConc == 1
\* records in one /v1/ingest/events:batch request
MaxBatch == 2

\* Config.max_skew_s
max_skew_s == 600

Keys == {"K1", "K2"}
EntityTypes == {"job", "subjob", "task"}
\* |now - event.at| in seconds
Skews == {max_skew_s, max_skew_s + 1}
\* the IngestEvent bodies of the model (one site, one app), each with the
\* skew of its event.at at the time it is submitted; of a body over the
\* limit nothing but the skew is ever read, so one such body stands for all
IngestEvents ==
    {ev \in [idempotency_key : Keys, entity_type : EntityTypes, app_id : {"app1"},
             skew : Skews] :
        ev.skew > max_skew_s => (ev.idempotency_key = "K1" /\ ev.entity_type = "job")}
\* the bodies of a batch request
Batches == UNION {[1..n -> IngestEvents] : n \in 1..MaxBatch}

NoRows == [event |-> <<>>, app |-> {}, job |-> <<>>, subjob |-> <<>>]
\* a request slot: the record being ingested and its open transaction; for a
\* batch request the records still to come and the loop's counters
IdleTx ==
    [pc |-> "idle", ev |-> <<>>, rows |-> NoRows,
     batch |-> FALSE, rest |-> <<>>, success |-> 0, failed |-> 0]

\* the rows a table gets from an INSERT without an ON CONFLICT clause
InsertEvent_plain(rows, ev) == Append(rows, ev)

\* INSERT INTO event ... ON CONFLICT (idempotency_key) DO NOTHING
InsertEvent(rows, ev) ==
    IF \E i \in 1..Len(rows) : rows[i].idempotency_key = ev.idempotency_key
    THEN rows
    ELSE Append(rows, ev)

\* INSERT INTO app ... ON CONFLICT (app_id) DO NOTHING
InsertApp(apps, ev) == apps \cup {ev.app_id}

SkewExceeded_ge(skew) == skew >= max_skew_s

\* "if skew > config.max_skew_s: raise HTTPException(status_code=422, ...)"
SkewExceeded(skew) == skew > max_skew_s

\* history: records submitted, those of them over the skew limit, records
\* answered 422, records answered 500, and per key the records answered 200
NewIngestHist ==
    [begun |-> 0, over |-> 0, rejected |-> 0, failed |-> 0, ok |-> [k \in Keys |-> 0]]

IngestStart ==
    /\ db = NoRows
    /\ tx = [r \in 1..MaxConc |-> IdleTx]
    /\ ing_hist = NewIngestHist

\* the number of records in items whose skew is over the limit
RECURSIVE OverSkew(_)
OverSkew(items) ==
    IF items = <<>> THEN 0
    ELSE (IF items[1].skew > max_skew_s THEN 1 ELSE 0) + OverSkew(Tail(items))

Submitted(h, items) ==
    [h EXCEPT !.begun = @ + Len(items), !.over = @ + OverSkew(items)]

\* ingest(ev) up to its first wait on the database: the skew check raises
\* (pc "raised") or the transaction is opened; st is the request slot t
\* with the history h
IngestBegin(st, ev) ==
    IF SkewExceeded(ev.skew)
    THEN [t |-> [st.t EXCEPT !.pc = "raised", !.ev = ev, !.rows = NoRows],
          h |-> [st.h EXCEPT !.rejected = @ + 1]]
    ELSE [t |-> [st.t EXCEPT !.pc = "event", !.ev = ev, !.rows = NoRows], h |-> st.h]

\* the ingest_batch loop "for ev in events: try: await ingest(ev) ... except
\* HTTPException: failed += 1", run until an ingest call waits on the
\* database or the list is exhausted and the request is answered
RECURSIVE BatchLoop(_)
BatchLoop(st) ==
    IF st.t.rest = <<>> THEN [st EXCEPT !.t = IdleTx]
    ELSE LET s1 == IngestBegin([st EXCEPT !.t.rest = Tail(@)], st.t.rest[1])
         IN  IF s1.t.pc = "raised"
             THEN BatchLoop([s1 EXCEPT !.t.failed = @ + 1])
             ELSE s1

\* an ingest call has returned (ok) or raised: a single request is answered,
\* a batch request counts it and goes on with its next record
IngestEnd(st, ok) ==
    IF st.t.batch
    THEN BatchLoop(IF ok THEN [st EXCEPT !.t.success = @ + 1]
                         ELSE [st EXCEPT !.t.failed = @ + 1])
    ELSE [st EXCEPT !.t = IdleTx]

\* POST /v1/ingest/events: a request over the skew limit is answered 422 and
\* nothing else happens
ingest(r, ev) ==
    /\ tx[r].pc = "idle"
    /\ ing_hist.begun < MaxIngests
    /\ LET st == IngestBegin([t |-> IdleTx, h |-> Submitted(ing_hist, <<ev>>)], ev)
       IN  /\ tx' = [tx EXCEPT ![r] = IF st.t.pc = "raised" THEN IdleTx ELSE st.t]
           /\ ing_hist' = st.h
    /\ UNCHANGED db

\* POST /v1/ingest/events:batch
ingest_batch(r, events) ==
    /\ tx[r].pc = "idle"
    /\ ing_hist.begun + Len(events) <= MaxIngests
    /\ LET st == BatchLoop([t |-> [IdleTx EXCEPT !.batch = TRUE, !.rest = events],
                            h |-> Submitted(ing_hist, events)])
       IN  /\ tx' = [tx EXCEPT ![r] = st.t]
           /\ ing_hist' = st.h
    /\ UNCHANGED db

\* the first statement; it waits while another open transaction has
\* inserted a row with the same key
insert_event(r) ==
    /\ tx[r].pc = "event"
    /\ \A q \in 1..MaxConc :
          \A i \in 1..Len(tx[q].rows.event) :
              tx[q].rows.event[i].idempotency_key # tx[r].ev.idempotency_key
    /\ LET new == InsertEvent(db.event, tx[r].ev)
       IN  tx' = [tx EXCEPT ![r].pc = "app",
                            ![r].rows.event = SubSeq(new, Len(db.event) + 1, Len(new))]
    /\ UNCHANGED <<db, ing_hist>>

\* the second statement; it waits while another open transaction has
\* inserted the same app_id
insert_app(r) ==
    /\ tx[r].pc = "app"
    /\ \A q \in 1..MaxConc : tx[r].ev.app_id \notin tx[q].rows.app
    /\ tx' = [tx EXCEPT ![r].pc = "entity",
                        ![r].rows.app = InsertApp(db.app, tx[r].ev) \ db.app]
    /\ UNCHANGED <<db, ing_hist>>

\* the third statement: "if ev.entity['type'] == 'job'" a job row, "else" a
\* subjob row
insert_entity(r) ==
    /\ tx[r].pc = "entity"
    /\ tx' = IF tx[r].ev.entity_type = "job"
             THEN [tx EXCEPT ![r].pc = "commit", ![r].rows.job = <<tx[r].ev>>]
             ELSE [tx EXCEPT ![r].pc = "commit", ![r].rows.subjob = <<tx[r].ev>>]
    /\ UNCHANGED <<db, ing_hist>>

\* the transaction block is left: commit, and ingest returns 200
ingest_commit(r) ==
    /\ tx[r].pc = "commit"
    /\ db' = [event  |-> db.event \o tx[r].rows.event,
              app    |-> db.app \cup tx[r].rows.app,
              job    |-> db.job \o tx[r].rows.job,
              subjob |-> db.subjob \o tx[r].rows.subjob]
    /\ LET st == IngestEnd([t |-> tx[r],
                            h |-> [ing_hist EXCEPT
                                      !.ok[tx[r].ev.idempotency_key] = @ + 1]], TRUE)
       IN  /\ tx' = [tx EXCEPT ![r] = st.t]
           /\ ing_hist' = st.h

\* acquire, a statement or the commit raises: the transaction is rolled back
\* and ingest raises HTTPException(500)
ingest_error(r) ==
    /\ tx[r].pc \in {"event", "app", "entity", "commit"}
    /\ LET st == IngestEnd([t |-> tx[r],
                            h |-> [ing_hist EXCEPT !.failed = @ + 1]], FALSE)
       IN  /\ tx' = [tx EXCEPT ![r] = st.t]
           /\ ing_hist' = st.h
    /\ UNCHANGED db

IngestInit == IngestStart /\ SdkOff /\ RouterOff /\ CorrelationOff /\ ListenerOff /\ EngineOff /\ CodecOff /\ MonitoredOff /\ IntegrationOff /\ EmitterOff /\ TracingOff /\ SpoolOff

IngestNext ==
    \/ \E r \in 1..MaxConc, ev \in IngestEvents :
          ingest(r, ev) /\ UNCHANGED <<sdkVars, rtVars, coVars, lsVars, ceVars, cdVars, moVars, icVars, emVars, trVars, spVars>>
    \/ \E r \in 1..MaxConc, events \in Batches :
          ingest_batch(r, events) /\ UNCHANGED <<sdkVars, rtVars, coVars, lsVars, ceVars, cdVars, moVars, icVars, emVars, trVars, spVars>>
    \/ \E r \in 1..MaxConc : insert_event(r) /\ UNCHANGED <<sdkVars, rtVars, coVars, lsVars, ceVars, cdVars, moVars, icVars, emVars, trVars, spVars>>
    \/ \E r \in 1..MaxConc : insert_app(r) /\ UNCHANGED <<sdkVars, rtVars, coVars, lsVars, ceVars, cdVars, moVars, icVars, emVars, trVars, spVars>>
    \/ \E r \in 1..MaxConc : insert_entity(r) /\ UNCHANGED <<sdkVars, rtVars, coVars, lsVars, ceVars, cdVars, moVars, icVars, emVars, trVars, spVars>>
    \/ \E r \in 1..MaxConc : ingest_commit(r) /\ UNCHANGED <<sdkVars, rtVars, coVars, lsVars, ceVars, cdVars, moVars, icVars, emVars, trVars, spVars>>
    \/ \E r \in 1..MaxConc : ingest_error(r) /\ UNCHANGED <<sdkVars, rtVars, coVars, lsVars, ceVars, cdVars, moVars, icVars, emVars, trVars, spVars>>

SpecIngest == IngestInit /\ [][IngestNext]_vars

(***************************************************************************)
(* Properties of the ingest write path.                                    *)
(***************************************************************************)

\* the committed rows of the event table with idempotency key k
EventRows(k) == {i \in 1..Len(db.event) : db.event[i].idempotency_key = k}

RECURSIVE PendingOver(_)
PendingOver(r) == IF r = 0 THEN 0 ELSE OverSkew(tx[r].rest) + PendingOver(r - 1)

RECURSIVE SumOk(_)
SumOk(ks) ==
    IF ks = {} THEN 0
    ELSE LET k == CHOOSE x \in ks : TRUE IN ing_hist.ok[k] + SumOk(ks \ {k})

\* C11: exactly the records whose skew is over max_skew_s are answered 422
\* (one of skew exactly max_skew_s is not); no transaction is ever open for
\* such a record and no row of the event, job or subjob table comes from
\* one; the app table is empty until a record has been ingested; and once
\* every request is answered each submitted record, also one that follows
\* a rejected record in its batch, has been rejected, failed or ingested.
C11_SkewRejected ==
    /\ ing_hist.rejected + PendingOver(MaxConc) = ing_hist.over
    /\ \A r \in 1..MaxConc : tx[r].pc # "idle" => tx[r].ev.skew <= max_skew_s
    /\ \A i \in 1..Len(db.event) : db.event[i].skew <= max_skew_s
    /\ \A i \in 1..Len(db.job) : db.job[i].skew <= max_skew_s
    /\ \A i \in 1..Len(db.subjob) : db.subjob[i].skew <= max_skew_s
    /\ db.app # {} => SumOk(Keys) > 0
    /\ (\A r \in 1..MaxConc : tx[r].pc = "idle") =>
          ing_hist.rejected + ing_hist.failed + SumOk(Keys) = ing_hist.begun

\* a batch whose first record was rejected for its skew is committing its
\* second record, whose skew is exactly max_skew_s
C11_Witness ==
    \E r \in 1..MaxConc :
        /\ tx[r].batch
        /\ tx[r].pc = "commit"
        /\ tx[r].failed = 1
        /\ ing_hist.failed = 0
        /\ ing_hist.rejected = 1
        /\ tx[r].ev.skew = max_skew_s
        /\ db = NoRows

\* C25: a committed record adds a job row exactly when its entity type is
\* 'job' and a subjob row exactly when it is 'subjob': every job row comes
\* from a job record, every subjob row from a subjob record, and a record of
\* any other entity type leaves no row in either table.
C25_EntityRows ==
    /\ \A i \in 1..Len(db.job) : db.job[i].entity_type = "job"
    /\ \A i \in 1..Len(db.subjob) : db.subjob[i].entity_type = "subjob"

(***************************************************************************)
(* Part 5: the TCP listener of the v2 sidecar (tcp_listener.py) and the    *)
(*         line parser (protocol/messages.py).                             *)
(***************************************************************************)

\* TCPConfig.max_connections (100 in the source), scaled down
max_connections == 1
\* sockets that connect to the listener in a run
MaxSockets == 2
\* lines a client sends on one connection
MaxLines == 2

\* the limit of the StreamReader that asyncio.start_server creates when no
\* limit is passed (2 ** 16): readline raises ValueError on a line whose
\* newline lies beyond it
LINE_LIMIT == 65536
\* MessageParser.MAX_MESSAGE_SIZE = 64 * 1024
MAX_MESSAGE_SIZE == 65536

ProtocolTypes ==
    {"event", "metric", "progress", "resource", "span", "heartbeat", "goodbye"}

\* validate_message: "msg.ts > now + 60000" and "msg.ts < now - 86400000" (ms)
FUTURE_SKEW_MS == 60000
PAST_SKEW_MS == 86400000

\* a line as the client sent it: the number of bytes before its newline,
\* whether they are UTF-8, whether they are JSON, whether the object has v,
\* src, ts and type, its v and type, whether it passes the checks of
\* validate_message other than the one of ts (valid), and its ts minus the
\* "now" that validate_message computes, in ms (dts)
BaseLine ==
    [len |-> 100, utf8 |-> TRUE, json |-> TRUE, fields |-> TRUE, v |-> 1,
     type |-> "event", valid |-> TRUE, dts |-> 0]
Lines ==
    { BaseLine,
      [BaseLine EXCEPT !.type = "goodbye"],
      [BaseLine EXCEPT !.len = 0],
      [BaseLine EXCEPT !.utf8 = FALSE],
      [BaseLine EXCEPT !.json = FALSE],
      [BaseLine EXCEPT !.fields = FALSE],
      [BaseLine EXCEPT !.v = 2],
      [BaseLine EXCEPT !.type = "bogus"],
      [BaseLine EXCEPT !.valid = FALSE],
      [BaseLine EXCEPT !.dts = FUTURE_SKEW_MS],
      [BaseLine EXCEPT !.dts = FUTURE_SKEW_MS + 1],
      [BaseLine EXCEPT !.dts = 0 - PAST_SKEW_MS],
      [BaseLine EXCEPT !.dts = 0 - PAST_SKEW_MS - 1],
      [BaseLine EXCEPT !.len = LINE_LIMIT - 1],
      [BaseLine EXCEPT !.len = LINE_LIMIT],
      [BaseLine EXCEPT !.len = LINE_LIMIT + 1],
      [BaseLine EXCEPT !.len = LINE_LIMIT + 1, !.json = FALSE] }

\* StreamReader.readline: ValueError when the line is longer than the limit
readline_raises(line) == line.len > LINE_LIMIT

\* MessageParser.parse: None ("none"), ValueError ("error") or a Message
parse(line) ==
    IF line.len = 0 THEN "none"
    ELSE IF line.len > MAX_MESSAGE_SIZE THEN "error"
    ELSE IF ~line.json THEN "error"
    ELSE IF ~line.fields THEN "error"
    ELSE IF line.v # 1 THEN "error"
    ELSE IF line.type \notin ProtocolTypes THEN "error"
    ELSE "message"

TsReasonable_open(dts) == dts < FUTURE_SKEW_MS /\ dts > 0 - PAST_SKEW_MS

\* validate_message, "Check timestamp is reasonable"
TsReasonable(dts) == ~(dts > FUTURE_SKEW_MS) /\ ~(dts < 0 - PAST_SKEW_MS)

\* MessageParser.validate_message
validate_message(line) == line.valid /\ TsReasonable(line.dts)

\* ConnectionHandler.__init__, and the history of its lines: lines read,
\* messages handed to on_message, lines dropped, well-formed and malformed
\* lines read, and why the connection was closed
NewHandler ==
    [pc |-> "open", messages_received |-> 0,
     nlines |-> 0, forwarded |-> 0, dropped |-> 0, good |-> 0, bad |-> 0,
     cause |-> "none"]
NoHandler == [NewHandler EXCEPT !.pc = "none"]

\* TCPListener.__init__; sockets counts the sockets the server has accepted;
\* ts is the history of the lines that are well-formed and valid but for
\* their ts: one with ts outside [now - 24 h, now + 60 s] was forwarded, one
\* with ts inside was dropped, one with ts on an end of the window was
\* forwarded, one with ts outside was dropped; over_fwd: a frame of more
\* than 64 KiB, its newline included, was forwarded
NewListener ==
    [connections |-> {}, connection_counter |-> 0, total_connections |-> 0,
     total_messages |-> 0, sockets |-> 0,
     ts |-> [out_fwd |-> FALSE, in_drop |-> FALSE, edge_fwd |-> FALSE, out_drop |-> FALSE],
     over_fwd |-> FALSE]

\* a line of the kinds that fail decoding or validation
IsBad(line) ==
    /\ line.len > 0
    /\ line.len <= LINE_LIMIT
    /\ ~(line.utf8 /\ line.json /\ line.fields /\ line.v = 1
         /\ line.type \in ProtocolTypes /\ validate_message(line))

\* a well-formed, valid line that is not the goodbye message
IsGood(line) ==
    /\ line.len > 0
    /\ line.len <= LINE_LIMIT
    /\ line.utf8 /\ line.json /\ line.fields /\ line.v = 1
    /\ line.type \in ProtocolTypes \ {"goodbye"}
    /\ validate_message(line)

\* the handle loop is left: "finally: self.writer.close()"
Closed(h, cause) == [h EXCEPT !.pc = "closed", !.cause = cause]

Dropped_close(h) == Closed([h EXCEPT !.dropped = @ + 1], "error")

\* "except ValueError ... continue", "except Exception ... continue" and
\* "if not self.parser.validate_message(message): ... continue"
Dropped(h) == [h EXCEPT !.dropped = @ + 1]

\* one pass of the "while True" loop of ConnectionHandler.handle on a line,
\* up to "await self.on_message(message, self)"
handle(h0, line) ==
    LET h == [h0 EXCEPT !.nlines = @ + 1,
                        !.good = IF IsGood(line) THEN @ + 1 ELSE @,
                        !.bad = IF IsBad(line) THEN @ + 1 ELSE @]
    IN  IF readline_raises(line) THEN Closed(h, "oversize")
        ELSE IF ~line.utf8 THEN Dropped(h)
        ELSE IF parse(line) = "none" THEN h
        ELSE IF parse(line) = "error" THEN Dropped(h)
        ELSE IF ~validate_message(line) THEN Dropped(h)
        ELSE LET h1 == [h EXCEPT !.messages_received = @ + 1]
             IN  IF line.type = "goodbye" THEN Closed(h1, "goodbye")
                 ELSE [h1 EXCEPT !.pc = "busy", !.forwarded = @ + 1]

AtLimit_gt(n) == n > max_connections

\* "if len(self.connections) >= self.max_connections"
AtLimit(n) == n >= max_connections

ListenerStart ==
    /\ lsn = NewListener
    /\ conn = [c \in 1..MaxSockets |-> NoHandler]

\* the server accepts a socket and runs _handle_client up to its first await
_handle_client ==
    /\ lsn.sockets < MaxSockets
    /\ LET c == lsn.sockets + 1
       IN  IF AtLimit(Cardinality(lsn.connections))
           THEN /\ conn' = [conn EXCEPT ![c] = Closed(NewHandler, "rejected")]
                /\ lsn' = [lsn EXCEPT !.sockets = c]
           ELSE /\ conn' = [conn EXCEPT ![c] = NewHandler]
                /\ lsn' = [lsn EXCEPT !.sockets = c,
                                      !.connection_counter = @ + 1,
                                      !.total_connections = @ + 1,
                                      !.connections = @ \cup {c}]

\* _handle_client's "finally" once handle has returned
Unregister(l, c, h) ==
    IF h.pc = "closed" THEN [l EXCEPT !.connections = @ \ {c}] ELSE l

\* TCPListener._handle_message up to "await self.on_message(...)"
_handle_message(l, h) ==
    IF h.pc = "busy" THEN [l EXCEPT !.total_messages = @ + 1] ELSE l

\* the history of a line that is an event message with nothing wrong but,
\* possibly, its ts: h0 is its handler before the line, h after it
TsHistory(l, line, h0, h) ==
    IF [line EXCEPT !.dts = 0] # BaseLine THEN l
    ELSE LET inside == line.dts <= FUTURE_SKEW_MS /\ line.dts >= 0 - PAST_SKEW_MS
             edge   == line.dts \in {FUTURE_SKEW_MS, 0 - PAST_SKEW_MS}
             fwd    == h.forwarded > h0.forwarded
         IN  [l EXCEPT !.ts.out_fwd = @ \/ (fwd /\ ~inside),
                       !.ts.in_drop = @ \/ (~fwd /\ inside),
                       !.ts.edge_fwd = @ \/ (fwd /\ edge),
                       !.ts.out_drop = @ \/ (~fwd /\ ~inside)]

\* the serialized length of a line, its terminating newline included
FrameLength(line) == line.len + 1

FrameHistory(l, line, h0, h) ==
    [l EXCEPT !.over_fwd = @ \/ (h.forwarded > h0.forwarded
                                  /\ FrameLength(line) > MAX_MESSAGE_SIZE)]

\* the handler of connection c reads the next line of its client
read_line(c, line) ==
    /\ conn[c].pc = "open"
    /\ conn[c].nlines < MaxLines
    /\ LET h == handle(conn[c], line)
       IN  /\ conn' = [conn EXCEPT ![c] = h]
           /\ lsn' = FrameHistory(
                         TsHistory(Unregister(_handle_message(lsn, h), c, h),
                                   line, conn[c], h),
                         line, conn[c], h)

\* the client closes its end: readline returns b'' and the loop is left
read_eof(c) ==
    /\ conn[c].pc = "open"
    /\ conn' = [conn EXCEPT ![c] = Closed(@, "eof")]
    /\ lsn' = [lsn EXCEPT !.connections = @ \ {c}]

\* on_message returns or raises ("except Exception ... continue")
on_message_return(c) ==
    /\ conn[c].pc = "busy"
    /\ conn' = [conn EXCEPT ![c].pc = "open"]
    /\ UNCHANGED lsn

ListenerInit == ListenerStart /\ SdkOff /\ RouterOff /\ CorrelationOff /\ IngestOff /\ EngineOff /\ CodecOff /\ MonitoredOff /\ IntegrationOff /\ EmitterOff /\ TracingOff /\ SpoolOff

ListenerNext ==
    \/ _handle_client /\ UNCHANGED <<sdkVars, rtVars, coVars, dbVars, ceVars, cdVars, moVars, icVars, emVars, trVars, spVars>>
    \/ \E c \in 1..MaxSockets, line \in Lines :
          read_line(c, line) /\ UNCHANGED <<sdkVars, rtVars, coVars, dbVars, ceVars, cdVars, moVars, icVars, emVars, trVars, spVars>>
    \/ \E c \in 1..MaxSockets : read_eof(c) /\ UNCHANGED <<sdkVars, rtVars, coVars, dbVars, ceVars, cdVars, moVars, icVars, emVars, trVars, spVars>>
    \/ \E c \in 1..MaxSockets :
          on_message_return(c) /\ UNCHANGED <<sdkVars, rtVars, coVars, dbVars, ceVars, cdVars, moVars, icVars, emVars, trVars, spVars>>

SpecListener == ListenerInit /\ [][ListenerNext]_vars

(***************************************************************************)
(* Properties of the listener.                                             *)
(***************************************************************************)

\* C12: a line that fails decoding or validation is dropped, not forwarded,
\* and never closes its connection: on every connection the lines dropped
\* are exactly the malformed ones, the messages handed to the message
\* handler are exactly the well-formed ones, whatever was read before them,
\* and no connection is closed for a malformed line.
C12_BadLineDropped ==
    \A c \in 1..MaxSockets :
        /\ conn[c].dropped = conn[c].bad
        /\ conn[c].forwarded = conn[c].good
        /\ conn[c].cause \in {"none", "eof", "goodbye", "oversize", "rejected"}

\* a valid line is being forwarded on a connection that dropped a line before
C12_Witness ==
    \E c \in 1..MaxSockets :
        /\ conn[c].pc = "busy"
        /\ conn[c].bad = 1
        /\ conn[c].dropped = 1
        /\ conn[c].forwarded = 1

\* C13: a line longer than 64 KiB is skipped and its connection stays open:
\* no connection is ever closed because of an oversize line.
C13_OversizeSkipped ==
    \A c \in 1..MaxSockets : conn[c].cause # "oversize"

\* C23: no message whose ts lies outside [now - 24 h, now + 60 s] at
\* validation time is handed on towards the correlation buffers, and a
\* message with nothing wrong whose ts lies inside, the two ends included, is
\* handed on; so ts = now - 24 h - 1 ms is rejected.
C23_TsWindow ==
    /\ ~lsn.ts.out_fwd
    /\ ~lsn.ts.in_drop

\* a message with ts on an end of the window has been forwarded and one with
\* ts outside the window has been dropped
C23_Witness ==
    /\ lsn.ts.edge_fwd
    /\ lsn.ts.out_drop

\* C24: the listener accepts a frame only if its serialized length, the
\* terminating newline included, is at most 65 536 bytes: no frame of 65 537
\* bytes or more is forwarded.
C24_FrameLimit == ~lsn.over_fwd

\* the connections whose handler is running
Active == {c \in 1..MaxSockets : conn[c].pc \in {"open", "busy"}}

\* C14: the handlers running are the registered connections and never more
\* than max_connections; a socket accepted at the limit is closed at once
\* and none of its lines is read.
C14_ConnectionLimit ==
    /\ Cardinality(Active) <= max_connections
    /\ Active = lsn.connections
    /\ \A c \in 1..MaxSockets :
          conn[c].cause = "rejected" =>
              /\ conn[c].pc = "closed"
              /\ conn[c].nlines = 0
              /\ conn[c].forwarded = 0

\* a socket has been turned away and max_connections handlers are running
C14_Witness ==
    /\ Cardinality(Active) = max_connections
    /\ \E c \in 1..MaxSockets : conn[c].cause = "rejected"

(***************************************************************************)
(* Part 6: the life cycle of the v2 correlation engine                     *)
(*         (correlation_engine.py) inside the sidecar (sidecar/main.py):   *)
(*         per-source buffers, the periodic flush and the shutdown         *)
(*         sequence. on_flush is a call that returns or raises.            *)
(***************************************************************************)

\* messages the connection handler delivers in a run
MaxDeliver == 3

Sources == {"s1", "s2"}
EngineTasks == {"handler", "timer", "stop"}

\* CorrelationEngine.__init__ and start(): ts is buffer_timestamps (none, or
\* a timestamp younger than flush_interval, or one at least that old), keys
\* the keys of self.buffers
StartedEngine ==
    [running |-> TRUE,
     buffers |-> [s \in Sources |-> <<>>],
     ts |-> [s \in Sources |-> "none"],
     keys |-> {},
     messages_received |-> 0, messages_flushed |-> 0, flush_count |-> 0]

\* the connection handler in its read loop, the periodic task in its sleep,
\* SidecarApp.stop not called
StartedTasks ==
    [handler |-> [pc |-> "read", todo |-> {}],
     timer   |-> [pc |-> "sleep", todo |-> {}],
     stop    |-> [pc |-> "run", todo |-> {}]]

\* history: the messages handed to on_flush; an on_flush call made after the
\* backends were closed; an on_flush call raised, and a batch was handed over
\* after that; a batch below the size threshold was handed over by the
\* periodic task; the sources the running pass found old enough and has not
\* flushed yet; an exception of on_flush reached the caller of _flush_source;
\* an on_flush call was cancelled
NewEngineHist ==
    [handed |-> {}, late |-> FALSE, raised |-> FALSE, after_raise |-> FALSE,
     by_timer |-> FALSE, due |-> {}, escaped |-> FALSE, cancelled |-> FALSE]

EngineStart ==
    /\ ce = StartedEngine
    /\ ctask = StartedTasks
    /\ chist = NewEngineHist

ToSet(q) == {q[i] : i \in 1..Len(q)}

\* _flush_source on a non-empty buffer, up to "await self.on_flush(messages)"
SwapBuffer(e, s) ==
    [e EXCEPT !.buffers[s] = <<>>,
              !.ts[s] = "none",
              !.messages_flushed = @ + Len(e.buffers[s]),
              !.flush_count = @ + 1]

\* the history of the on_flush call _flush_source makes for source s in task t
HandOver(h, e, s, t) ==
    [h EXCEPT !.handed = @ \cup ToSet(e.buffers[s]),
              !.late = @ \/ ctask["stop"].pc = "stopped",
              !.after_raise = @ \/ h.raised,
              !.by_timer = @ \/ (t = "timer" /\ Len(e.buffers[s]) < flush_batch_size),
              !.due = @ \ {s}]

Caught_none(out) == FALSE

\* "except Exception" around on_flush: catches what on_flush raises, not the
\* CancelledError of a cancelled task
Caught(out) == out = "raise"

sources_to_flush_none(e) == {}

\* _flush_by_time: the sources whose timestamp is flush_interval old and
\* whose buffer is not empty
sources_to_flush(e) == {s \in Sources : e.ts[s] = "aged" /\ e.buffers[s] # <<>>}

\* where task t goes on after a _flush_source call of its loop has returned
\* (todo: the sources its loop has still to flush)
AfterFlush(t, todo) ==
    IF t = "handler" THEN [pc |-> "read", todo |-> {}]
    ELSE IF t = "timer"
    THEN [pc |-> IF todo = {} THEN "sleep" ELSE "pass", todo |-> todo]
    ELSE [pc |-> IF todo = {} THEN "close" ELSE "flush_all", todo |-> todo]

SizeReached_late(e, s) == Len(e.buffers[s]) > flush_batch_size

\* "if len(self.buffers[source]) >= self.flush_batch_size"
SizeReached(e, s) == Len(e.buffers[s]) >= flush_batch_size

\* the connection handler reads a message of source s and awaits
\* process_message, which flushes the source at the size threshold
deliver(s) ==
    /\ ctask["handler"].pc = "read"
    /\ ce.messages_received < MaxDeliver
    /\ LET m  == ce.messages_received + 1
           e1 == [ce EXCEPT !.messages_received = m,
                            !.buffers[s] = Append(@, m),
                            !.keys = @ \cup {s},
                            !.ts[s] = IF @ = "none" THEN "fresh" ELSE @]
       IN  IF SizeReached(e1, s)
           THEN /\ ce' = SwapBuffer(e1, s)
                /\ chist' = HandOver(chist, e1, s, "handler")
                /\ ctask' = [ctask EXCEPT !["handler"].pc = "flush"]
           ELSE /\ ce' = e1
                /\ UNCHANGED <<ctask, chist>>

\* the handler's readline returns b'': the client has closed, or the
\* listener has closed the socket and the lines received before are used up
handler_eof ==
    /\ ctask["handler"].pc = "read"
    /\ ctask' = [ctask EXCEPT !["handler"].pc = "closed"]
    /\ UNCHANGED <<ce, chist>>

\* flush_interval seconds have passed since buffer_timestamps[s]
SourceAges(s) ==
    /\ ce.ts[s] = "fresh"
    /\ ce' = [ce EXCEPT !.ts[s] = "aged"]
    /\ UNCHANGED <<ctask, chist>>

\* the periodic task wakes and _flush_by_time collects the sources to flush
\* (a pass that finds none changes nothing)
_flush_by_time ==
    /\ ctask["timer"].pc = "sleep"
    /\ ce.running
    /\ sources_to_flush(ce) # {}
    /\ ctask' = [ctask EXCEPT !["timer"] = [pc |-> "pass", todo |-> sources_to_flush(ce)]]
    /\ chist' = [chist EXCEPT !.due = {s \in Sources : ce.ts[s] = "aged" /\ ce.buffers[s] # <<>>}]
    /\ UNCHANGED ce

\* once the listener has closed the sockets the handler is never blocked in
\* readline: it runs through the lines it has received, up to the end of its
\* input or to its next on_flush call, before SidecarApp.stop goes on
HandlerParked == ctask["handler"].pc # "read"

\* the next _flush_source(s) call of the loop of _flush_by_time (t = timer)
\* or of flush_all (t = stop); it returns at once on an empty buffer
flush_next(t, s) ==
    /\ t \in {"timer", "stop"}
    /\ ctask[t].pc = IF t = "timer" THEN "pass" ELSE "flush_all"
    /\ s \in ctask[t].todo
    /\ t = "stop" => HandlerParked
    /\ IF ce.buffers[s] = <<>>
       THEN /\ ctask' = [ctask EXCEPT ![t] = AfterFlush(t, ctask[t].todo \ {s})]
            /\ UNCHANGED <<ce, chist>>
       ELSE /\ ce' = SwapBuffer(ce, s)
            /\ chist' = HandOver(chist, ce, s, t)
            /\ ctask' = [ctask EXCEPT ![t] = [pc |-> "flush", todo |-> ctask[t].todo \ {s}]]

\* the on_flush call of task t ends: it returns, or raises an exception. An
\* exception that is not caught leaves _flush_source: the handler's loop
\* catches it and reads on, the periodic loop catches it and drops the rest
\* of its pass, flush_all and stop() end with it
on_flush_done(t, out) ==
    /\ ctask[t].pc = "flush"
    /\ IF out = "ok" \/ Caught(out)
       THEN /\ ctask' = [ctask EXCEPT ![t] = AfterFlush(t, ctask[t].todo)]
            /\ chist' = [chist EXCEPT !.raised = @ \/ out = "raise"]
       ELSE /\ ctask' = [ctask EXCEPT ![t] = AfterFlush(t, {})]
            /\ chist' = [chist EXCEPT !.raised = TRUE, !.escaped = TRUE]
    /\ UNCHANGED ce

\* SidecarApp.stop: TCPListener.stop closes the server and the sockets; the
\* handler task is not awaited and goes on with the lines it has received
listener_stop ==
    /\ ctask["stop"].pc = "run"
    /\ ctask' = [ctask EXCEPT !["stop"].pc = "listener"]
    /\ UNCHANGED <<ce, chist>>

\* CorrelationEngine.stop up to flush_all: running = False, the periodic
\* task is cancelled and awaited; the CancelledError ends its sleep, or its
\* on_flush call and the rest of its pass
engine_stop ==
    /\ ctask["stop"].pc = "listener"
    /\ HandlerParked
    /\ ce' = [ce EXCEPT !.running = FALSE]
    /\ ctask' = [ctask EXCEPT !["timer"] = [pc |-> "done", todo |-> {}],
                              !["stop"].pc = "engine"]
    /\ chist' = [chist EXCEPT !.cancelled = @ \/ (ctask["timer"].pc = "flush" /\ ~Caught("cancel")),
                              !.due = {}]

\* flush_all: sources = list(self.buffers.keys())
flush_all ==
    /\ ctask["stop"].pc = "engine"
    /\ HandlerParked
    /\ ctask' = [ctask EXCEPT !["stop"] = AfterFlush("stop", ce.keys)]
    /\ UNCHANGED <<ce, chist>>

\* RoutingEngine.close: every backend is closed, and stop() returns
routing_close ==
    /\ ctask["stop"].pc = "close"
    /\ HandlerParked
    /\ ctask' = [ctask EXCEPT !["stop"].pc = "stopped"]
    /\ UNCHANGED <<ce, chist>>

EngineInit ==
    EngineStart /\ SdkOff /\ RouterOff /\ CorrelationOff /\ IngestOff /\ ListenerOff /\ CodecOff /\ MonitoredOff /\ IntegrationOff /\ EmitterOff /\ TracingOff /\ SpoolOff

EngineNext ==
    \/ \E s \in Sources : deliver(s) /\ UNCHANGED <<sdkVars, rtVars, coVars, dbVars, lsVars, cdVars, moVars, icVars, emVars, trVars, spVars>>
    \/ handler_eof /\ UNCHANGED <<sdkVars, rtVars, coVars, dbVars, lsVars, cdVars, moVars, icVars, emVars, trVars, spVars>>
    \/ \E s \in Sources : SourceAges(s) /\ UNCHANGED <<sdkVars, rtVars, coVars, dbVars, lsVars, cdVars, moVars, icVars, emVars, trVars, spVars>>
    \/ _flush_by_time /\ UNCHANGED <<sdkVars, rtVars, coVars, dbVars, lsVars, cdVars, moVars, icVars, emVars, trVars, spVars>>
    \/ \E s \in Sources : flush_next("timer", s) /\ UNCHANGED <<sdkVars, rtVars, coVars, dbVars, lsVars, cdVars, moVars, icVars, emVars, trVars, spVars>>
    \/ \E t \in EngineTasks, out \in {"ok", "raise"} :
          on_flush_done(t, out) /\ UNCHANGED <<sdkVars, rtVars, coVars, dbVars, lsVars, cdVars, moVars, icVars, emVars, trVars, spVars>>

SpecEngine == EngineInit /\ [][EngineNext]_vars

\* time passes, the periodic task is scheduled and every on_flush call ends
EngineFairness ==
    /\ \A s \in Sources : WF_vars(SourceAges(s) /\ UNCHANGED <<sdkVars, rtVars, coVars, dbVars, lsVars, cdVars, moVars, icVars, emVars, trVars, spVars>>)
    /\ WF_vars(_flush_by_time /\ UNCHANGED <<sdkVars, rtVars, coVars, dbVars, lsVars, cdVars, moVars, icVars, emVars, trVars, spVars>>)
    /\ WF_vars((\E s \in Sources : flush_next("timer", s))
               /\ UNCHANGED <<sdkVars, rtVars, coVars, dbVars, lsVars, cdVars, moVars, icVars, emVars, trVars, spVars>>)
    /\ \A t \in EngineTasks :
          WF_vars((\E out \in {"ok", "raise"} : on_flush_done(t, out))
                  /\ UNCHANGED <<sdkVars, rtVars, coVars, dbVars, lsVars, cdVars, moVars, icVars, emVars, trVars, spVars>>)

SpecEngineFair == SpecEngine /\ EngineFairness

ShutdownNext ==
    \/ EngineNext
    \/ listener_stop /\ UNCHANGED <<sdkVars, rtVars, coVars, dbVars, lsVars, cdVars, moVars, icVars, emVars, trVars, spVars>>
    \/ engine_stop /\ UNCHANGED <<sdkVars, rtVars, coVars, dbVars, lsVars, cdVars, moVars, icVars, emVars, trVars, spVars>>
    \/ flush_all /\ UNCHANGED <<sdkVars, rtVars, coVars, dbVars, lsVars, cdVars, moVars, icVars, emVars, trVars, spVars>>
    \/ \E s \in Sources : flush_next("stop", s) /\ UNCHANGED <<sdkVars, rtVars, coVars, dbVars, lsVars, cdVars, moVars, icVars, emVars, trVars, spVars>>
    \/ routing_close /\ UNCHANGED <<sdkVars, rtVars, coVars, dbVars, lsVars, cdVars, moVars, icVars, emVars, trVars, spVars>>

SpecShutdown == EngineInit /\ [][ShutdownNext]_vars

(***************************************************************************)
(* Properties of the correlation engine's life cycle.                      *)
(***************************************************************************)

Buffered(m) == \E s \in Sources : m \in ToSet(ce.buffers[s])

C19_ShutdownFlushesAll ==
    ctask["stop"].pc = "stopped" =>
        /\ \A s \in Sources : ce.buffers[s] = <<>>
        /\ ~chist.late

\* C20: an exception of on_flush does not reach the caller of _flush_source
\* (process_message's caller, the periodic loop); a batch handed to on_flush
\* is never put back into a buffer, and it is counted in messages_flushed
\* whether on_flush returned or raised.
C20_FlushErrorSwallowed ==
    /\ ~chist.escaped
    /\ \A m \in chist.handed : ~Buffered(m)
    /\ ce.messages_flushed = Cardinality(chist.handed)
    /\ ce.messages_received = ce.messages_flushed
                                 + Cardinality({m \in 1..MaxDeliver : Buffered(m)})

\* an on_flush call has raised, a later batch was handed to on_flush all the
\* same, and the handler and the periodic task are back in their loops
C20_Witness ==
    /\ chist.raised
    /\ chist.after_raise
    /\ ctask["handler"].pc = "read"
    /\ ctask["timer"].pc = "sleep"

(***************************************************************************)
(* Part 7: the wire protocol of the v2 sidecar (protocol/messages.py):     *)
(*         Message.to_ldjson and MessageParser.parse.                      *)
(***************************************************************************)

\* the dataclasses of messages.py and the MessageType each factory sets
MessageClasses ==
    [Message |-> ProtocolTypes,
     EventMessage |-> {"event"}, MetricMessage |-> {"metric"},
     ProgressMessage |-> {"progress"}, ResourceMessage |-> {"resource"},
     SpanMessage |-> {"span"}, HeartbeatMessage |-> {"heartbeat"},
     GoodbyeMessage |-> {"goodbye"}]

\* an optional field: None, or a value
Optionals == {"None", "x"}

\* the payload (data: Optional[Dict[str, Any]]): None, a dict of JSON values,
\* or a dict one of whose values is a tuple
Payloads == {"None", "dict", "dict_tuple"}

\* the messages of protocol version 1: an instance of Message or of one of
\* its subclasses; type is the value of its MessageType, data None or the
\* payload of its type
Messages ==
    {m \in [cls : DOMAIN MessageClasses, v : {1}, src : {"svc"}, ts : {0},
            type : ProtocolTypes, tid : Optionals, sid : Optionals,
            pid : Optionals, data : Payloads] :
        m.type \in MessageClasses[m.cls]}

\* validate_message on a Message object whose ts is now
ValidMessage(m) ==
    /\ m.type \in {"event", "metric", "progress"} => m.data # "None"
    /\ m.type = "span" => (m.tid # "None" /\ m.sid # "None")

\* json.dumps of the payload: None as null, a tuple as an array
JsonData(data) ==
    CASE data = "None" -> "null"
      [] data = "dict_tuple" -> "dict_list"
      [] OTHER -> data

\* json.dumps(asdict(self)): the JSON object of the dataclass fields, each
\* optional field that is None as null
to_json(m) ==
    [v |-> m.v, src |-> m.src, ts |-> m.ts, type |-> m.type,
     tid |-> IF m.tid = "None" THEN "null" ELSE m.tid,
     sid |-> IF m.sid = "None" THEN "null" ELSE m.sid,
     pid |-> IF m.pid = "None" THEN "null" ELSE m.pid,
     data |-> JsonData(m.data)]

\* Message.to_ldjson: the JSON text and its newline
to_ldjson(m) == [json |-> to_json(m), newline |-> TRUE]

\* cls(**json.loads(text)): null as None, an array as a list
FromJsonAs(cls, d) ==
    [cls |-> cls, v |-> d.v, src |-> d.src, ts |-> d.ts, type |-> d.type,
     tid |-> IF d.tid = "null" THEN "None" ELSE d.tid,
     sid |-> IF d.sid = "null" THEN "None" ELSE d.sid,
     pid |-> IF d.pid = "null" THEN "None" ELSE d.pid,
     data |-> IF d.data = "null" THEN "None" ELSE d.data]

\* "return Message(**data)": the class of the object parse builds for a line
\* that encodes m
ParsedClass(m) == "Message"

\* MessageParser.parse on the line that encodes m: strip, json.loads, the
\* checks of v and type, Message(**data); raised is ValueError
ParseLine(m, line) ==
    IF line.json.v # 1 \/ line.json.type \notin ProtocolTypes
    THEN [raised |-> TRUE, msg |-> <<>>]
    ELSE [raised |-> FALSE, msg |-> <<FromJsonAs(ParsedClass(m), line.json)>>]

\* the == of a dataclass: same class and equal fields
DataclassEq(a, b) == a.cls = b.cls /\ a = b

\* line and out are empty until the step that sets them
CodecStart == codec \in {[m |-> m, line |-> <<>>, out |-> <<>>] : m \in Messages}

\* line = m.to_ldjson()
encode ==
    /\ codec.line = <<>>
    /\ codec' = [codec EXCEPT !.line = <<to_ldjson(codec.m)>>]

\* out = MessageParser.parse(line)
decode ==
    /\ codec.line # <<>>
    /\ codec.out = <<>>
    /\ codec' = [codec EXCEPT !.out = <<ParseLine(codec.m, codec.line[1])>>]

CodecInit ==
    CodecStart /\ SdkOff /\ RouterOff /\ CorrelationOff /\ IngestOff /\ ListenerOff /\ EngineOff /\ MonitoredOff /\ IntegrationOff /\ EmitterOff /\ TracingOff /\ SpoolOff

CodecNext ==
    \/ encode /\ UNCHANGED <<sdkVars, rtVars, coVars, dbVars, lsVars, ceVars, moVars, icVars, emVars, trVars, spVars>>
    \/ decode /\ UNCHANGED <<sdkVars, rtVars, coVars, dbVars, lsVars, ceVars, moVars, icVars, emVars, trVars, spVars>>

SpecCodec == CodecInit /\ [][CodecNext]_vars

(***************************************************************************)
(* Properties of the wire protocol.                                        *)
(***************************************************************************)

\* C28: for every valid message m, decoding the line produced by encoding m
\* yields a message equal to m, for every message type and with tid, sid,
\* pid and data present or absent.
C28_RoundTrip ==
    (codec.out # <<>> /\ ValidMessage(codec.m)) =>
        /\ ~codec.out[1].raised
        /\ DataclassEq(codec.out[1].msg[1], codec.m)

(***************************************************************************)
(* Part 8: the Monitored context manager of the job SDK                    *)
(*         (monitoring_sdk/context.py): __enter__, tick, __exit__.         *)
(***************************************************************************)

\* the tick() calls of one block
MaxTicks == 3

\* the extra_meta of a tick
ExtraMetas == {"step1", "step2"}

\* how the block ends: exc is None, or an exception instance; truthy is the
\* truth value of the instance (False for an exception whose class defines
\* __bool__ or __len__ so), msg is str(exc)
NoExc == [raised |-> FALSE, truthy |-> FALSE, msg |-> "none"]

BlockEnds == {NoExc} \cup {[raised |-> TRUE, truthy |-> b, msg |-> "boom"] : b \in BOOLEAN}

\* Monitored(...): nothing sent yet
NewMonitored ==
    [pc |-> "new", sent |-> <<>>, ticks |-> <<>>, exc |-> NoExc,
     propagated |-> FALSE, send_errors |-> 0]

\* JobEvent.now(kind, ..., status, metadata)
JobEvent(kind, status, metadata, error) ==
    [kind |-> kind, status |-> status, metadata |-> metadata, error |-> error]

\* "try: self.emitter.send(ev) except Exception": the emitter receives ev; if
\* its send raises, the exception is logged and swallowed
emitter_send(m, ev, raises) ==
    [m EXCEPT !.sent = Append(@, ev),
              !.send_errors = IF raises THEN @ + 1 ELSE @]

\* "if exc": the truth value of the exception passed to __exit__
Truthy(exc) == exc.raised /\ exc.truthy

\* with Monitored(...) as ctx: the 'started' event
__enter__(raises) ==
    /\ mon.pc = "new"
    /\ mon' = [emitter_send(mon, JobEvent("started", "running", "metadata", "none"), raises)
                 EXCEPT !.pc = "inside"]

\* ctx.tick(extra_meta) inside the block: a 'progress' event
tick(extra_meta, raises) ==
    /\ mon.pc = "inside"
    /\ Len(mon.ticks) < MaxTicks
    /\ mon' = [emitter_send(mon, JobEvent("progress", "running", extra_meta, "none"), raises)
                 EXCEPT !.ticks = Append(@, extra_meta)]

\* the block ends with exc: the 'finished' event, then "return False", which
\* lets the exception of the block through
__exit__(exc, raises) ==
    /\ mon.pc = "inside"
    /\ LET status == IF Truthy(exc) THEN "failed" ELSE "succeeded"
           error == IF Truthy(exc) THEN exc.msg ELSE "none"
       IN mon' = [emitter_send(mon, JobEvent("finished", status, "metadata", error), raises)
                    EXCEPT !.pc = "exited", !.exc = exc, !.propagated = exc.raised]

MonitoredStart == mon = NewMonitored

MonitoredInit ==
    MonitoredStart /\ SdkOff /\ RouterOff /\ CorrelationOff /\ IngestOff /\ ListenerOff /\ EngineOff /\ CodecOff /\ IntegrationOff /\ EmitterOff /\ TracingOff /\ SpoolOff

MonitoredNext ==
    \/ \E raises \in BOOLEAN :
          __enter__(raises) /\ UNCHANGED <<sdkVars, rtVars, coVars, dbVars, lsVars, ceVars, cdVars, icVars, emVars, trVars, spVars>>
    \/ \E extra_meta \in ExtraMetas, raises \in BOOLEAN :
          tick(extra_meta, raises) /\ UNCHANGED <<sdkVars, rtVars, coVars, dbVars, lsVars, ceVars, cdVars, icVars, emVars, trVars, spVars>>
    \/ \E exc \in BlockEnds, raises \in BOOLEAN :
          __exit__(exc, raises) /\ UNCHANGED <<sdkVars, rtVars, coVars, dbVars, lsVars, ceVars, cdVars, icVars, emVars, trVars, spVars>>

SpecMonitored == MonitoredInit /\ [][MonitoredNext]_vars

(***************************************************************************)
(* Properties of the Monitored context manager.                            *)
(***************************************************************************)

\* C29: once the block has ended the emitter has received exactly one
\* 'started' event first, one 'progress' event per tick in call order, and
\* exactly one 'finished' event last, whose status is 'succeeded' if the
\* block ended normally and 'failed' with metadata.error set to the message
\* of the exception if it raised; the exception is propagated.
C29_EventSequence ==
    mon.pc = "exited" =>
        LET n == Len(mon.ticks)
            fin == mon.sent[n + 2]
        IN /\ Len(mon.sent) = n + 2
           /\ mon.sent[1].kind = "started"
           /\ \A i \in 1..n : /\ mon.sent[i + 1].kind = "progress"
                              /\ mon.sent[i + 1].metadata = mon.ticks[i]
           /\ fin.kind = "finished"
           /\ ~mon.exc.raised => fin.status = "succeeded"
           /\ mon.exc.raised => /\ fin.status = "failed"
                                /\ fin.error = mon.exc.msg
                                /\ mon.propagated

(***************************************************************************)
(* Part 9: the integration container (shared_utils/integrations/           *)
(*         container.py): IntegrationContainer.send_event.                 *)
(***************************************************************************)

\* the registered integrations; self.integrations is a dict keyed by name,
\* iterated in insertion order: integration i is the i-th name
MaxIntegrations == 3

\* what integration.send_event does when awaited: it returns True or False,
\* or raises an Exception
SendOutcomes == {"True", "False", "raise"}

\* a container with its integrations registered, each enabled or not, and a
\* send_event call about to enter its loop: results = {}
Containers ==
    {[enabled |-> e, pc |-> 1, results |-> <<>>, returned |-> FALSE,
      calls |-> [i \in 1..MaxIntegrations |-> 0],
      raised |-> [i \in 1..MaxIntegrations |-> FALSE]] :
        e \in [1..MaxIntegrations -> BOOLEAN]}

Skipped_never(c, i) == FALSE

\* "if not integration.is_enabled(): continue"
Skipped(c, i) == ~c.enabled[i]

\* "try: success = await ...; results[name] = success / except Exception:
\* results[name] = False"
ResultOf(out) == IF out = "raise" THEN "False" ELSE out

\* one iteration of the loop over self.integrations.items()
send_event(out) ==
    /\ ic.pc <= MaxIntegrations
    /\ LET i == ic.pc
       IN IF Skipped(ic, i)
          THEN ic' = [ic EXCEPT !.pc = i + 1]
          ELSE ic' = [ic EXCEPT !.pc = i + 1,
                                !.calls[i] = @ + 1,
                                !.raised[i] = (out = "raise"),
                                !.results = [n \in DOMAIN ic.results \cup {i} |->
                                               IF n = i THEN ResultOf(out)
                                               ELSE ic.results[n]]]

\* "return results"
send_event_return ==
    /\ ic.pc = MaxIntegrations + 1
    /\ ~ic.returned
    /\ ic' = [ic EXCEPT !.returned = TRUE]

IntegrationStart == ic \in Containers

IntegrationInit ==
    IntegrationStart /\ SdkOff /\ RouterOff /\ CorrelationOff /\ IngestOff /\ ListenerOff /\ EngineOff /\ CodecOff /\ MonitoredOff /\ EmitterOff /\ TracingOff /\ SpoolOff

IntegrationNext ==
    \/ \E out \in SendOutcomes :
          send_event(out) /\ UNCHANGED <<sdkVars, rtVars, coVars, dbVars, lsVars, ceVars, cdVars, moVars, emVars, trVars, spVars>>
    \/ send_event_return /\ UNCHANGED <<sdkVars, rtVars, coVars, dbVars, lsVars, ceVars, cdVars, moVars, emVars, trVars, spVars>>

SpecIntegration == IntegrationInit /\ [][IntegrationNext]_vars

(***************************************************************************)
(* Properties of the integration container.                                *)
(***************************************************************************)

MAX_RETRIES == 3

\* the max_retries arguments of the constructor
MaxRetryArg == 4

\* what one POST does: a 2xx answer, a timeout, a network error, or an
\* answer whose status makes raise_for_status raise HTTPStatusError
PostOutcomes == {"ok", "timeout", "network", "status"}

\* SidecarEmitter(max_retries = n, enable_retries = e):
\* "self.max_retries = max_retries if enable_retries else 1"
NewEmitter(n, e) ==
    [enable_retries |-> e, max_retries |-> IF e THEN n ELSE 1,
     pc |-> "idle", attempts |-> 0, errors |-> <<>>, ended |-> "none"]

\* retry_if_exception_type((httpx.TimeoutException, httpx.NetworkError))
Retryable(out) == out \in {"timeout", "network"}

\* stop_after_attempt(MAX_RETRIES), evaluated when send is decorated
StopAfterAttempt(e) == e.attempts >= MAX_RETRIES

\* emitter.send(ev) is called
send_call ==
    /\ em.pc = "idle"
    /\ em' = [em EXCEPT !.pc = "sending"]

\* one attempt of send: the POST and raise_for_status; the decorator returns
\* the result, retries the call, or (reraise = True) lets the error through
post(out) ==
    /\ em.pc = "sending"
    /\ LET e == [em EXCEPT !.attempts = @ + 1,
                          !.errors = IF out = "ok" THEN @ ELSE Append(@, out)]
       IN em' = IF out = "ok" THEN [e EXCEPT !.pc = "done", !.ended = "returned"]
                ELSE IF Retryable(out) /\ ~StopAfterAttempt(e) THEN e
                ELSE [e EXCEPT !.pc = "done", !.ended = out]

EmitterStart == em \in {NewEmitter(n, e) : n \in 1..MaxRetryArg, e \in BOOLEAN}

EmitterInit ==
    EmitterStart /\ SdkOff /\ RouterOff /\ CorrelationOff /\ IngestOff /\ ListenerOff /\ EngineOff /\ CodecOff /\ MonitoredOff /\ IntegrationOff /\ TracingOff /\ SpoolOff

EmitterNext ==
    \/ send_call /\ UNCHANGED <<sdkVars, rtVars, coVars, dbVars, lsVars, ceVars, cdVars, moVars, icVars, trVars, spVars>>
    \/ \E out \in PostOutcomes :
          post(out) /\ UNCHANGED <<sdkVars, rtVars, coVars, dbVars, lsVars, ceVars, cdVars, moVars, icVars, trVars, spVars>>

SpecEmitter == EmitterInit /\ [][EmitterNext]_vars

(***************************************************************************)
(* Properties of the HTTP emitter.                                         *)
(***************************************************************************)

\* C31: send attempts the POST at most max_retries times, and exactly once
\* when the emitter was built with enable_retries = False; it retries only
\* after a timeout or a network error, lets the error through after the last
\* attempt, and does not retry an HTTP status error.
C31_AttemptsBounded ==
    /\ em.attempts <= em.max_retries
    /\ (em.pc = "done" /\ ~em.enable_retries) => em.attempts = 1
    /\ \A i \in 1..Len(em.errors) - 1 : Retryable(em.errors[i])
    /\ (em.pc = "done" /\ em.errors # <<>> /\ em.ended # "returned") =>
          em.ended = em.errors[Len(em.errors)]

(***************************************************************************)
(* Part 11: the envelope of the v2 SDK (sdk/python/monitoring_sdk.py):     *)
(*          the protocol fields _send_message adds, start_span, end_span   *)
(*          and the replay of buffered messages.                           *)
(***************************************************************************)

\* the SDK calls of a run
MaxEmits == 3
\* the milliseconds that pass in a run
MaxClock == 2

\* trace ids: 0 is None, 1 the id start_span generates, 2 one set by the caller
TraceIds == {1, 2}

\* a message as the public API builds it, before _send_message: tid, sid and
\* pid are 0 where the dict has no such key. History: about is the span a
\* span record was built for and parent the span that was current then,
\* stamps counts the times _send_message has added the protocol fields, and
\* first keeps the ts, tid and sid it added the first time
NewMessage(kind, tid, sid, pid) ==
    [kind |-> kind, ts |-> 0, tid |-> tid, sid |-> sid, pid |-> pid,
     about |-> sid, parent |-> pid, stamps |-> 0,
     first |-> [ts |-> 0, tid |-> 0, sid |-> 0]]

\* MonitoringSDK.__init__: no trace, no span; the initial connect succeeded
\* or not
NewTracing(up) ==
    [trace_id |-> 0, span_id |-> 0, now |-> 0, connected |-> up,
     buffer |-> <<>>, wire |-> <<>>, spans |-> 0, open |-> {}, emits |-> 0]

\* "msg['ts'] = int(time.time() * 1000)", "if self.trace_id: msg['tid'] =
\* self.trace_id", "if self.span_id: msg['sid'] = self.span_id"
Envelope(s, msg) ==
    LET e == [msg EXCEPT !.ts = s.now,
                         !.tid = IF s.trace_id # 0 THEN s.trace_id ELSE @,
                         !.sid = IF s.span_id # 0 THEN s.span_id ELSE @]
    IN  [e EXCEPT !.stamps = @ + 1,
                  !.first = IF msg.stamps = 0
                            THEN [ts |-> e.ts, tid |-> e.tid, sid |-> e.sid]
                            ELSE @]

\* _flush_buffer with every write succeeding: each buffered message goes
\* through _send_message again
RECURSIVE Replay(_)
Replay(s) ==
    IF s.buffer = <<>> THEN s
    ELSE Replay([s EXCEPT !.buffer = Tail(@),
                          !.wire = Append(@, Envelope(s, Head(s.buffer)))])

\* _send_message while the sidecar is reachable (up) or not: a write that
\* succeeds; a write that fails, after which the message is buffered and the
\* reconnect fails; or, not connected, the message is buffered and the
\* reconnect succeeds and flushes the buffer, or fails
Transmit(s, msg, up) ==
    LET m == Envelope(s, msg)
    IN  IF s.connected /\ up THEN [s EXCEPT !.wire = Append(@, m)]
        ELSE IF s.connected THEN [s EXCEPT !.connected = FALSE, !.buffer = Append(@, m)]
        ELSE IF up THEN Replay([s EXCEPT !.connected = TRUE, !.buffer = Append(@, m)])
        ELSE [s EXCEPT !.buffer = Append(@, m)]

\* log_event / log_metric / log_progress / log_resource
emit_event(up) ==
    /\ tr.emits < MaxEmits
    /\ tr' = [Transmit(tr, NewMessage("event", 0, 0, 0), up) EXCEPT !.emits = @ + 1]

\* start_span(name): a new span id, a trace id if there is none, the current
\* span as parent, the new span as current, the open record
start_span(up) ==
    /\ tr.emits < MaxEmits
    /\ LET span_id == tr.spans + 1
           s1 == [tr EXCEPT !.trace_id = IF @ = 0 THEN 1 ELSE @,
                            !.span_id = span_id,
                            !.spans = span_id,
                            !.open = @ \cup {span_id}]
       IN  tr' = [Transmit(s1, NewMessage("open", s1.trace_id, span_id, tr.span_id), up)
                     EXCEPT !.emits = @ + 1]

\* end_span(span_id): the close record, then "if self.span_id == span_id:
\* self.span_id = None"
end_span(span_id, up) ==
    /\ tr.emits < MaxEmits
    /\ span_id \in tr.open
    /\ LET s1 == Transmit(tr, NewMessage("close", tr.trace_id, span_id, 0), up)
       IN  tr' = [s1 EXCEPT !.span_id = IF @ = span_id THEN 0 ELSE @,
                            !.open = @ \ {span_id},
                            !.emits = @ + 1]

\* set_trace_id(trace_id)
set_trace_id(trace_id) ==
    /\ tr.trace_id # trace_id
    /\ tr.emits < MaxEmits
    /\ tr' = [tr EXCEPT !.trace_id = trace_id]

\* a millisecond passes
ClockTick ==
    /\ tr.now < MaxClock
    /\ tr' = [tr EXCEPT !.now = @ + 1]

TracingStart == tr \in {NewTracing(up) : up \in BOOLEAN}

TracingInit ==
    TracingStart /\ SdkOff /\ RouterOff /\ CorrelationOff /\ IngestOff /\ ListenerOff /\ EngineOff /\ CodecOff /\ MonitoredOff /\ IntegrationOff /\ EmitterOff /\ SpoolOff

TracingNext ==
    \/ \E up \in BOOLEAN :
          emit_event(up) /\ UNCHANGED <<sdkVars, rtVars, coVars, dbVars, lsVars, ceVars, cdVars, moVars, icVars, emVars, spVars>>
    \/ \E up \in BOOLEAN :
          start_span(up) /\ UNCHANGED <<sdkVars, rtVars, coVars, dbVars, lsVars, ceVars, cdVars, moVars, icVars, emVars, spVars>>
    \/ \E span_id \in 1..MaxEmits, up \in BOOLEAN :
          end_span(span_id, up) /\ UNCHANGED <<sdkVars, rtVars, coVars, dbVars, lsVars, ceVars, cdVars, moVars, icVars, emVars, spVars>>
    \/ \E trace_id \in TraceIds :
          set_trace_id(trace_id) /\ UNCHANGED <<sdkVars, rtVars, coVars, dbVars, lsVars, ceVars, cdVars, moVars, icVars, emVars, spVars>>
    \/ ClockTick /\ UNCHANGED <<sdkVars, rtVars, coVars, dbVars, lsVars, ceVars, cdVars, moVars, icVars, emVars, spVars>>

SpecTracing == TracingInit /\ [][TracingNext]_vars

(***************************************************************************)
(* Properties of the envelope.                                             *)
(***************************************************************************)

\* the messages that have left _send_message: written or buffered
Stamped == {tr.wire[i] : i \in 1..Len(tr.wire)} \cup {tr.buffer[i] : i \in 1..Len(tr.buffer)}

\* C35: every span record carries the id of the span it is about: an open
\* record has sid equal to the id start_span returned and pid equal to the
\* span that was current before the call, a close record emitted by
\* end_span(s) has sid = s, also when s is not the current span.
C35_SpanIds ==
    \A m \in Stamped :
        m.kind \in {"open", "close"} => (m.sid = m.about /\ m.pid = m.parent)

\* C37: a message replayed from the buffer is written with the envelope it
\* was given when first emitted: its ts, tid and sid are unchanged by
\* buffering and replay.
C37_ReplayKeepsEnvelope ==
    \A i \in 1..Len(tr.wire) :
        LET m == tr.wire[i]
        IN  m.stamps > 1 => (m.ts = m.first.ts /\ m.tid = m.first.tid /\ m.sid = m.first.sid)

(***************************************************************************)
(* Part 12: the HTTP spool sidecar (apps/sidecar_agent/main.py): ingest,   *)
(*          forward, spool and drain_spool, against the Local API.         *)
(***************************************************************************)

\* the events posted to the sidecar in a run, each with its own
\* idempotency key
MaxEvents == 2

SpoolEvents == 1..MaxEvents

\* the sidecar after startup: drain_spool sleeps, the spool directory is
\* empty. stale: the events whose event.at is more than max_skew_s old.
\* History: answered, forwarded (accepted by the Local API), spooled (a file
\* was written), unspooled (the spool write failed)
NewSpool(up) ==
    [api_up |-> up, files |-> {}, stale |-> {}, pc |-> "sleep", todo |-> {},
     answered |-> {}, forwarded |-> {}, spooled |-> {}, unspooled |-> {}]

\* forward(ev): the POST to the Local API and raise_for_status. The Local
\* API answers 422 when the skew of event.at exceeds max_skew_s
ForwardOk(s, e) == s.api_up /\ e \notin s.stale

AfterForward_unlink(dir, e, ok) == dir \ {e}

\* drain_spool: "await forward(data); p.unlink(missing_ok=True)", the
\* unlink being skipped when forward raises
AfterForward(dir, e, ok) == IF ok THEN dir \ {e} ELSE dir

\* POST /v1/ingest/events: forward, and spool(ev) if forward raises;
\* written: the write of the spool file succeeds
spool_ingest(e, written) ==
    /\ e \notin sp.answered
    /\ sp' = IF ForwardOk(sp, e)
             THEN [sp EXCEPT !.forwarded = @ \cup {e}, !.answered = @ \cup {e}]
             ELSE IF written
             THEN [sp EXCEPT !.files = @ \cup {e}, !.spooled = @ \cup {e},
                             !.answered = @ \cup {e}]
             ELSE [sp EXCEPT !.unspooled = @ \cup {e}, !.answered = @ \cup {e}]

\* drain_spool wakes: files = sorted(SPOOL_DIR.glob('*.json'))
drain_list ==
    /\ sp.pc = "sleep"
    /\ sp' = [sp EXCEPT !.pc = "loop", !.todo = sp.files]

\* one iteration of "for p in files": read, forward, unlink
drain_item ==
    /\ sp.pc = "loop"
    /\ sp.todo # {}
    /\ LET e  == CHOOSE x \in sp.todo : \A y \in sp.todo : x <= y
           ok == ForwardOk(sp, e)
       IN  sp' = [sp EXCEPT !.todo = @ \ {e},
                            !.files = AfterForward(@, e, ok),
                            !.forwarded = IF ok THEN @ \cup {e} ELSE @]

\* the loop is over: asyncio.sleep(drain_interval_s)
drain_sleep ==
    /\ sp.pc = "loop"
    /\ sp.todo = {}
    /\ sp' = [sp EXCEPT !.pc = "sleep"]

\* the Local API becomes unreachable, or reachable again
api_switch ==
    sp' = [sp EXCEPT !.api_up = ~@]

\* the outage outlasts max_skew_s: that much time has passed since event.at
\* of a spooled event while the Local API is unreachable
skew_passes(e) ==
    /\ ~sp.api_up
    /\ e \in sp.files
    /\ e \notin sp.stale
    /\ sp' = [sp EXCEPT !.stale = @ \cup {e}]

SpoolStart == sp \in {NewSpool(up) : up \in BOOLEAN}

SpoolInit ==
    SpoolStart /\ SdkOff /\ RouterOff /\ CorrelationOff /\ IngestOff /\ ListenerOff /\ EngineOff /\ CodecOff /\ MonitoredOff /\ IntegrationOff /\ EmitterOff /\ TracingOff

SpoolNext ==
    \/ \E e \in SpoolEvents, written \in BOOLEAN :
          spool_ingest(e, written) /\ UNCHANGED <<sdkVars, rtVars, coVars, dbVars, lsVars, ceVars, cdVars, moVars, icVars, emVars, trVars>>
    \/ drain_list /\ UNCHANGED <<sdkVars, rtVars, coVars, dbVars, lsVars, ceVars, cdVars, moVars, icVars, emVars, trVars>>
    \/ drain_item /\ UNCHANGED <<sdkVars, rtVars, coVars, dbVars, lsVars, ceVars, cdVars, moVars, icVars, emVars, trVars>>
    \/ drain_sleep /\ UNCHANGED <<sdkVars, rtVars, coVars, dbVars, lsVars, ceVars, cdVars, moVars, icVars, emVars, trVars>>
    \/ api_switch /\ UNCHANGED <<sdkVars, rtVars, coVars, dbVars, lsVars, ceVars, cdVars, moVars, icVars, emVars, trVars>>
    \/ \E e \in SpoolEvents : skew_passes(e) /\ UNCHANGED <<sdkVars, rtVars, coVars, dbVars, lsVars, ceVars, cdVars, moVars, icVars, emVars, trVars>>

SpecSpool == SpoolInit /\ [][SpoolNext]_vars

\* drain_spool runs for ever: it wakes after every sleep and every
\* iteration of its loop ends
SpoolFairness ==
    /\ WF_vars(drain_list /\ UNCHANGED <<sdkVars, rtVars, coVars, dbVars, lsVars, ceVars, cdVars, moVars, icVars, emVars, trVars>>)
    /\ WF_vars(drain_item /\ UNCHANGED <<sdkVars, rtVars, coVars, dbVars, lsVars, ceVars, cdVars, moVars, icVars, emVars, trVars>>)
    /\ WF_vars(drain_sleep /\ UNCHANGED <<sdkVars, rtVars, coVars, dbVars, lsVars, ceVars, cdVars, moVars, icVars, emVars, trVars>>)

SpecSpoolFair == SpecSpool /\ SpoolFairness

(***************************************************************************)
(* Properties of the spool sidecar.                                        *)
(***************************************************************************)

\* C38: after /v1/ingest/events has answered for an event, the event has
\* been forwarded successfully or exists as a spool file (provided the spool
\* write succeeded); a spool file is deleted only after its event has been
\* forwarded successfully, and a failed forward keeps the file.
C38_ForwardedOrSpooled ==
    [][ /\ \A e \in sp'.answered : e \in sp'.forwarded \cup sp'.files \cup sp'.unspooled
        /\ \A e \in sp.files \ sp'.files : e \in sp'.forwarded
        /\ \A e \in sp.files : ~ForwardOk(sp, e) => e \in sp'.files ]_vars

\* one spooled event has been forwarded by the drain and its file deleted,
\* while the file of another, whose forward failed, is still there
C38_Witness ==
    /\ \E e \in sp.spooled : e \in sp.forwarded /\ e \notin sp.files
    /\ \E e \in sp.files : e \in sp.stale /\ e \notin sp.todo /\ sp.pc = "loop"

\* C39: once the Local API is reachable again, every spooled event is
\* eventually ingested by the Local API and its spool file removed; no spool
\* file is retried for ever.
C39_SpoolDrains ==
    <>[](sp.api_up) => <>[](sp.files = {})

====
